---- MODULE Spec2Model ----
(***************************************************************************)
(* A model of the CoastWatch Format (CWF) library, cwflib.c: the handle    *)
(* registry, the dataset lifecycle (create / open / def_dim / def_var /    *)
(* enddef / close), header attribute I/O, raw pixel I/O, the calibration   *)
(* codec and the 1B compression codec.                                     *)
(*                                                                         *)
(* Modelling conventions                                                   *)
(*  - A file is a record [size, bytes]; bytes maps the offsets that hold a *)
(*    non-zero byte to that byte, every other offset below size reads 0.   *)
(*  - 16-bit values are written by cw_put_att / cw_put_raw after a byte    *)
(*    swap on little-endian hosts and without one on big-endian hosts, so  *)
(*    the file always holds them most significant byte first.              *)
(*  - short values are integers in -32768..32767; a conversion to short    *)
(*    keeps the low 16 bits.                                               *)
(*  - size_t values are kept modulo 2^64.  A value v near 0 is the integer *)
(*    v; a value near 2^64 is the negative integer v - 2^64.  Sums and     *)
(*    products of such representatives agree with the machine's modulo     *)
(*    2^64; ULess is the unsigned order.                                   *)
(*  - float values are exact rationals <<num, den>>, den > 0.              *)
(*  - malloc, fopen of a creatable path, tmpfile, fseek and fclose do not  *)
(*    fail; fread fails when it runs past the end of the file, fwrite      *)
(*    fails on a stream opened "rb".  Writes reach the file at once.       *)
(***************************************************************************)
EXTENDS Integers, Sequences, FiniteSets, TLC

VARIABLES
  cw_files,   \* the handle table: slot -> handle record or NULL
  fs,         \* the file system: path -> file or NoFile
  op,         \* the last API call: [name, cwid, args]
  ret,        \* its return code
  out,        \* what it handed back through its pointer arguments
  proj        \* the projection context: the static variables of cwproj.c

vars == <<cw_files, fs, op, ret, out, proj>>

\* the projection context of a process that has not called cw_init_proj
NoProjection ==
  [hem |-> 0, splon |-> 0, ioff |-> 0, joff |-> 0, end_lat |-> <<0, 1>>,
   res |-> <<0, 1>>, plon |-> <<0, 1>>, ptype |-> -1]

----------------------------------------------------------------------------
(* Program constants (cwflib.c, cwflib.h) *)

CW_MAX_FILES == 100
CW_HEAD_MIN == 136
CW_HEAD_COMP == 1024
CW_MAGIC_NUM == 213
CW_DIM_NUM == 2
CW_ROWS == 0
CW_COLUMNS == 1
CW_DATA == 0
CW_GRAPHICS == 1
CW_O_ROWS == 34
CW_O_COLUMNS == 36

CW_CLOBBER == 0
CW_NOCLOBBER == 1
CW_NOWRITE == 0
CW_WRITE == 1
CW_BYTE == 0
CW_CHAR == 1
CW_SHORT == 2
CW_FLOAT == 3
CW_NOERR == 0

CW_O_CALIBRATION_TYPE == 44
CW_O_CHANNEL_NUMBER == 48
CW_O_DATA_ID == 50
CW_O_CHANNELS_PRODUCED == 60
CW_O_CHANNEL_PIXEL_SIZE == 62
CW_O_ANCILLARIES_PRODUCED == 68
CW_O_ANCILLARY_PIXEL_SIZE == 70
CW_O_COMPRESSION_TYPE == 78
CW_O_HORIZONTAL_SHIFT == 84
CW_O_VERTICAL_SHIFT == 86

CW_CALIBRATION_TYPE_RAW == 0
CW_CALIBRATION_TYPE_ALBEDO_TEMPERATURE == 2
CW_DATA_ID_VISIBLE == 0
CW_DATA_ID_IR == 1
CW_DATA_ID_ANCILLARY == 2
CW_DATA_ID_CLOUD == 3
CW_COMPRESSION_TYPE_NONE == 0
CW_COMPRESSION_TYPE_FLAT == 1
CW_COMPRESSION_TYPE_1B == 2

CW_CHANNEL_NUMBER_AVHRR1 == 1
CW_CHANNEL_NUMBER_AVHRR2 == 2
CW_CHANNEL_NUMBER_AVHRR3 == 3
CW_CHANNEL_NUMBER_AVHRR4 == 4
CW_CHANNEL_NUMBER_AVHRR5 == 5
CW_CHANNEL_NUMBER_MCSST == 6
CW_CHANNEL_NUMBER_SCAN_ANGLE == 101
CW_CHANNEL_NUMBER_SAT_ZENITH == 102
CW_CHANNEL_NUMBER_SOL_ZENITH == 103
CW_CHANNEL_NUMBER_REL_AZIMUTH == 104
CW_CHANNEL_NUMBER_SCAN_TIME == 105
CW_CHANNEL_NUMBER_MCSST_SPLIT == 201
CW_CHANNEL_NUMBER_MCSST_DUAL == 202
CW_CHANNEL_NUMBER_MCSST_TRIPLE == 203
CW_CHANNEL_NUMBER_CPSST_SPLIT == 204
CW_CHANNEL_NUMBER_CPSST_DUAL == 205
CW_CHANNEL_NUMBER_CPSST_TRIPLE == 206
CW_CHANNEL_NUMBER_NLSST_SPLIT == 207
CW_CHANNEL_NUMBER_NLSST_DUAL == 208
CW_CHANNEL_NUMBER_NLSST_TRIPLE == 209
CW_CHANNEL_NUMBER_SST_MULTI == 210
CW_CHANNEL_NUMBER_OCEAN_REFLECT == 301
CW_CHANNEL_NUMBER_TURBIDITY == 302
CW_CHANNEL_NUMBER_CLOUD == 401

CW_ERR_CREATE == 1
CW_ERR_CREATE_MODE == 2
CW_ERR_ACCESS == 3
CW_ERR_ACCESS_MODE == 4
CW_ERR_NOT_DEFINE_MODE == 5
CW_ERR_DATASET_ID == 6
CW_ERR_ENDDEF_FAILED == 7
CW_ERR_DIM_DEFINED == 8
CW_ERR_DIM == 10
CW_ERR_VAR_DEFINED == 11
CW_ERR_DATA_TYPE == 12
CW_ERR_DIM_NUM == 13
CW_ERR_DIM_ID == 14
CW_ERR_VAR == 15
CW_ERR_VAR_ID == 16
CW_ERR_VAR_INDEX == 17
CW_ERR_VAR_VALUE == 18
CW_ERR_DEFINE_MODE == 19
CW_ERR_NOMEM == 22
CW_ERR_MAX_FILES == 23
CW_ERR_CREATE_EXISTS == 24
CW_ERR_MAGIC == 26
CW_ERR_MAGIC_READ == 27
CW_ERR_READ_ATT == 31
CW_ERR_READ_DATA == 32
CW_ERR_WRITE_DIM == 33
CW_ERR_WRITE_ATT == 34
CW_ERR_WRITE_DATA == 35
CW_ERR_DIM_UNDEFINED == 36
CW_ERR_VAR_UNDEFINED == 37
CW_ERR_INTERNAL == 38
CW_ERR_UNSUP_DATA_ID == 39
CW_ERR_UNSUP_CHANNEL_NUMBER == 40
CW_ERR_UNSUP_PIXEL_SIZE == 43
CW_ERR_UNSUP_CALIBRATION_TYPE == 44
CW_ERR_UNSUP_COMPRESSION_TYPE == 47
CW_ERR_COM_BYTE0 == 48
CW_ERR_WRITE_SHIFT == 50

\* attribute schema constants, header offsets and codes
CW_ATT_NUM == 57
CW_LATLON_SCALE == 128
CW_RESOLUTION_SCALE == 100
CW_ATT_RW == 0
CW_ATT_RO == 1
CW_ERR_ATT == 20
CW_ERR_ATT_VALUE == 21
CW_ERR_ATT_ID == 29
CW_ERR_DATASET_RO == 41
CW_ERR_ATT_TYPE == 42
CW_ERR_ATT_LEN == 49
CW_ERR_ATT_RO == 51
CW_O_SATELLITE_ID == 0
CW_O_SATELLITE_TYPE == 2
CW_O_DATA_SET_TYPE == 4
CW_O_PROJECTION_TYPE == 6
CW_O_START_LATITUDE == 8
CW_O_END_LATITUDE == 10
CW_O_START_LONGITUDE == 12
CW_O_END_LONGITUDE == 14
CW_O_RESOLUTION == 16
CW_O_POLAR_GRID_SIZE == 22
CW_O_POLAR_GRID_POINTS == 24
CW_O_POLAR_HEMISPHERE == 26
CW_O_POLAR_PRIME_LONGITUDE == 28
CW_O_GRID_IOFFSET == 30
CW_O_GRID_JOFFSET == 32
CW_O_COMPOSITE_TYPE == 42
CW_O_FILL_TYPE == 46
CW_O_SUN_NORMALIZATION == 52
CW_O_LIMB_CORRECTION == 54
CW_O_NONLINEARITY_CORRECTION == 56
CW_O_ORBITS_PROCESSED == 58
CW_O_CHANNEL_START_BLOCK == 64
CW_O_CHANNEL_END_BLOCK == 66
CW_O_ANCILLARY_START_BLOCK == 72
CW_O_ANCILLARY_END_BLOCK == 74
CW_O_IMAGE_BLOCK_SIZE == 76
CW_O_PERCENT_NON_ZERO == 82
CW_O_HORIZONTAL_SKEW == 88
CW_O_VERTICAL_SKEW == 90
CW_O_ORBIT_TYPE == 100
CW_O_ORBIT_TIME == 102
CW_O_START_ROW == 104
CW_O_START_COLUMN == 106
CW_O_END_ROW == 108
CW_O_END_COLUMN == 110
CW_O_ORBIT_START_YEAR == 112
CW_O_ORBIT_START_DAY == 114
CW_O_ORBIT_START_MONTH_DAY == 116
CW_O_ORBIT_START_HOUR_MINUTE == 118
CW_O_ORBIT_START_SECOND == 120
CW_O_ORBIT_START_MILLISECOND == 122
CW_O_ORBIT_END_YEAR == 124
CW_O_ORBIT_END_DAY == 126
CW_O_ORBIT_END_MONTH_DAY == 128
CW_O_ORBIT_END_HOUR_MINUTE == 130
CW_O_ORBIT_END_SECOND == 132
CW_O_ORBIT_END_MILLISECOND == 134
CW_SATELLITE_ID_NOAA_6 == -10815
CW_SATELLITE_ID_NOAA_7 == -10813
CW_SATELLITE_ID_NOAA_8 == -10811
CW_SATELLITE_ID_NOAA_9 == -10810
CW_SATELLITE_ID_NOAA_10 == -10809
CW_SATELLITE_ID_NOAA_11 == -10808
CW_SATELLITE_ID_NOAA_12 == -10812
CW_SATELLITE_ID_NOAA_14 == -10799
CW_SATELLITE_ID_NOAA_15 == -10798
CW_SATELLITE_ID_NOAA_16 == -10797
CW_SATELLITE_ID_NOAA_17 == -10796
CW_SATELLITE_TYPE_MORNING == 0
CW_SATELLITE_TYPE_AFTERNOON == 1
CW_DATA_SET_TYPE_LAC == 1
CW_DATA_SET_TYPE_GAC == 2
CW_DATA_SET_TYPE_HRPT == 3
CW_PROJECTION_TYPE_UNMAPPED == 0
CW_PROJECTION_TYPE_MERCATOR == 1
CW_PROJECTION_TYPE_POLAR == 2
CW_PROJECTION_TYPE_LINEAR == 3
CW_COMPOSITE_TYPE_NONE == 0
CW_COMPOSITE_TYPE_NADIR == 1
CW_COMPOSITE_TYPE_AVERAGE == 2
CW_COMPOSITE_TYPE_LATEST == 3
CW_COMPOSITE_TYPE_WARMEST == 4
CW_COMPOSITE_TYPE_COLDEST == 5
CW_FILL_TYPE_NONE == 0
CW_FILL_TYPE_AVERAGE == 1
CW_FILL_TYPE_ADJACENT == 2
CW_SUN_NORMALIZATION_NO == 0
CW_SUN_NORMALIZATION_YES == 1
CW_LIMB_CORRECTION_NO == 0
CW_LIMB_CORRECTION_YES == 1
CW_NONLINEARITY_CORRECTION_NO == 0
CW_NONLINEARITY_CORRECTION_YES == 1
CW_ORBIT_TYPE_ASCENDING == -1
CW_ORBIT_TYPE_DESCENDING == 1
CW_ORBIT_TYPE_BOTH == 2
CW_ORBIT_TIME_DAY == 0
CW_ORBIT_TIME_NIGHT == 1
CW_ORBIT_TIME_BOTH == 2


\* the channel_number code table
channel_number ==
  << <<"avhrr_ch1", CW_CHANNEL_NUMBER_AVHRR1>>,
     <<"avhrr_ch2", CW_CHANNEL_NUMBER_AVHRR2>>,
     <<"avhrr_ch3", CW_CHANNEL_NUMBER_AVHRR3>>,
     <<"avhrr_ch4", CW_CHANNEL_NUMBER_AVHRR4>>,
     <<"avhrr_ch5", CW_CHANNEL_NUMBER_AVHRR5>>,
     <<"mcsst", CW_CHANNEL_NUMBER_MCSST>>,
     <<"scan_angle", CW_CHANNEL_NUMBER_SCAN_ANGLE>>,
     <<"sat_zenith", CW_CHANNEL_NUMBER_SAT_ZENITH>>,
     <<"solar_zenith", CW_CHANNEL_NUMBER_SOL_ZENITH>>,
     <<"rel_azimuth", CW_CHANNEL_NUMBER_REL_AZIMUTH>>,
     <<"scan_time", CW_CHANNEL_NUMBER_SCAN_TIME>>,
     <<"mcsst_split", CW_CHANNEL_NUMBER_MCSST_SPLIT>>,
     <<"mcsst_dual", CW_CHANNEL_NUMBER_MCSST_DUAL>>,
     <<"mcsst_triple", CW_CHANNEL_NUMBER_MCSST_TRIPLE>>,
     <<"cpsst_split", CW_CHANNEL_NUMBER_CPSST_SPLIT>>,
     <<"cpsst_dual", CW_CHANNEL_NUMBER_CPSST_DUAL>>,
     <<"cpsst_triple", CW_CHANNEL_NUMBER_CPSST_TRIPLE>>,
     <<"nlsst_split", CW_CHANNEL_NUMBER_NLSST_SPLIT>>,
     <<"nlsst_dual", CW_CHANNEL_NUMBER_NLSST_DUAL>>,
     <<"nlsst_triple", CW_CHANNEL_NUMBER_NLSST_TRIPLE>>,
     <<"sst_multi", CW_CHANNEL_NUMBER_SST_MULTI>>,
     <<"ocean_reflect", CW_CHANNEL_NUMBER_OCEAN_REFLECT>>,
     <<"turbidity", CW_CHANNEL_NUMBER_TURBIDITY>>,
     <<"cloud", CW_CHANNEL_NUMBER_CLOUD>> >>

\* the dimension table: name, header offset
cw_dimensions == << <<"rows", CW_O_ROWS>>, <<"columns", CW_O_COLUMNS>> >>

\* the satellite_id code table
satellite_id ==
  << <<"noaa-6", CW_SATELLITE_ID_NOAA_6>>,
     <<"noaa-7", CW_SATELLITE_ID_NOAA_7>>,
     <<"noaa-8", CW_SATELLITE_ID_NOAA_8>>,
     <<"noaa-9", CW_SATELLITE_ID_NOAA_9>>,
     <<"noaa-10", CW_SATELLITE_ID_NOAA_10>>,
     <<"noaa-11", CW_SATELLITE_ID_NOAA_11>>,
     <<"noaa-12", CW_SATELLITE_ID_NOAA_12>>,
     <<"noaa-14", CW_SATELLITE_ID_NOAA_14>>,
     <<"noaa-15", CW_SATELLITE_ID_NOAA_15>>,
     <<"noaa-16", CW_SATELLITE_ID_NOAA_16>>,
     <<"noaa-17", CW_SATELLITE_ID_NOAA_17>> >>

\* the satellite_type code table
satellite_type ==
  << <<"morning", CW_SATELLITE_TYPE_MORNING>>,
     <<"afternoon", CW_SATELLITE_TYPE_AFTERNOON>> >>

\* the data_set_type code table
data_set_type ==
  << <<"lac", CW_DATA_SET_TYPE_LAC>>,
     <<"gac", CW_DATA_SET_TYPE_GAC>>,
     <<"hrpt", CW_DATA_SET_TYPE_HRPT>> >>

\* the projection_type code table
projection_type ==
  << <<"unmapped", CW_PROJECTION_TYPE_UNMAPPED>>,
     <<"mercator", CW_PROJECTION_TYPE_MERCATOR>>,
     <<"polar", CW_PROJECTION_TYPE_POLAR>>,
     <<"linear", CW_PROJECTION_TYPE_LINEAR>> >>

\* the composite_type code table
composite_type ==
  << <<"none", CW_COMPOSITE_TYPE_NONE>>,
     <<"nadir", CW_COMPOSITE_TYPE_NADIR>>,
     <<"average", CW_COMPOSITE_TYPE_AVERAGE>>,
     <<"latest", CW_COMPOSITE_TYPE_LATEST>>,
     <<"warmest", CW_COMPOSITE_TYPE_WARMEST>>,
     <<"coldest", CW_COMPOSITE_TYPE_COLDEST>> >>

\* the calibration_type code table
calibration_type ==
  << <<"raw", CW_CALIBRATION_TYPE_RAW>>,
     <<"albedo_temperature", CW_CALIBRATION_TYPE_ALBEDO_TEMPERATURE>> >>

\* the fill_type code table
fill_type ==
  << <<"none", CW_FILL_TYPE_NONE>>,
     <<"average", CW_FILL_TYPE_AVERAGE>>,
     <<"adjacent", CW_FILL_TYPE_ADJACENT>> >>

\* the data_id code table
data_id_codes ==
  << <<"visible", CW_DATA_ID_VISIBLE>>,
     <<"infrared", CW_DATA_ID_IR>>,
     <<"ancillary", CW_DATA_ID_ANCILLARY>>,
     <<"cloud", CW_DATA_ID_CLOUD>> >>

\* the sun_normalization code table
sun_normalization ==
  << <<"no", CW_SUN_NORMALIZATION_NO>>,
     <<"yes", CW_SUN_NORMALIZATION_YES>> >>

\* the limb_correction code table
limb_correction ==
  << <<"no", CW_LIMB_CORRECTION_NO>>,
     <<"yes", CW_LIMB_CORRECTION_YES>> >>

\* the nonlinearity_correction code table
nonlinearity_correction ==
  << <<"no", CW_NONLINEARITY_CORRECTION_NO>>,
     <<"yes", CW_NONLINEARITY_CORRECTION_YES>> >>

\* the compression_type code table
compression_type ==
  << <<"none", CW_COMPRESSION_TYPE_NONE>>,
     <<"flat", CW_COMPRESSION_TYPE_FLAT>>,
     <<"1b", CW_COMPRESSION_TYPE_1B>> >>

\* the orbit_type code table
orbit_type ==
  << <<"ascending", CW_ORBIT_TYPE_ASCENDING>>,
     <<"descending", CW_ORBIT_TYPE_DESCENDING>>,
     <<"both", CW_ORBIT_TYPE_BOTH>> >>

\* the orbit_time code table
orbit_time ==
  << <<"day", CW_ORBIT_TIME_DAY>>,
     <<"night", CW_ORBIT_TIME_NIGHT>>,
     <<"both", CW_ORBIT_TIME_BOTH>> >>

\* an entry of the attribute table: name, header offset, code table, mode,
\* scale and external type
Att(att_name, att_offset, att_code, att_mode, att_scale, att_type) ==
  [att_name |-> att_name, att_offset |-> att_offset,
   att_code_num |-> Len(att_code), att_code |-> att_code,
   att_mode |-> att_mode, att_scale |-> att_scale, att_type |-> att_type]

\* the attribute table, in the order of the attribute ids
cw_attributes ==
  << Att("satellite_id", CW_O_SATELLITE_ID,
         satellite_id, CW_ATT_RW, 0, CW_CHAR),
     Att("satellite_type", CW_O_SATELLITE_TYPE,
         satellite_type, CW_ATT_RW, 0, CW_CHAR),
     Att("data_set_type", CW_O_DATA_SET_TYPE,
         data_set_type, CW_ATT_RW, 0, CW_CHAR),
     Att("projection_type", CW_O_PROJECTION_TYPE,
         projection_type, CW_ATT_RW, 0, CW_CHAR),
     Att("start_latitude", CW_O_START_LATITUDE,
         <<>>, CW_ATT_RW, CW_LATLON_SCALE, CW_FLOAT),
     Att("end_latitude", CW_O_END_LATITUDE,
         <<>>, CW_ATT_RW, CW_LATLON_SCALE, CW_FLOAT),
     Att("start_longitude", CW_O_START_LONGITUDE,
         <<>>, CW_ATT_RW, CW_LATLON_SCALE, CW_FLOAT),
     Att("end_longitude", CW_O_END_LONGITUDE,
         <<>>, CW_ATT_RW, CW_LATLON_SCALE, CW_FLOAT),
     Att("resolution", CW_O_RESOLUTION,
         <<>>, CW_ATT_RW, CW_RESOLUTION_SCALE, CW_FLOAT),
     Att("polar_grid_size", CW_O_POLAR_GRID_SIZE,
         <<>>, CW_ATT_RW, 0, CW_SHORT),
     Att("polar_grid_points", CW_O_POLAR_GRID_POINTS,
         <<>>, CW_ATT_RW, 0, CW_SHORT),
     Att("polar_hemisphere", CW_O_POLAR_HEMISPHERE,
         <<>>, CW_ATT_RW, 0, CW_SHORT),
     Att("polar_prime_longitude", CW_O_POLAR_PRIME_LONGITUDE,
         <<>>, CW_ATT_RW, 0, CW_SHORT),
     Att("grid_ioffset", CW_O_GRID_IOFFSET,
         <<>>, CW_ATT_RW, 0, CW_SHORT),
     Att("grid_joffset", CW_O_GRID_JOFFSET,
         <<>>, CW_ATT_RW, 0, CW_SHORT),
     Att("composite_type", CW_O_COMPOSITE_TYPE,
         composite_type, CW_ATT_RW, 0, CW_CHAR),
     Att("calibration_type", CW_O_CALIBRATION_TYPE,
         calibration_type, CW_ATT_RO, 0, CW_CHAR),
     Att("fill_type", CW_O_FILL_TYPE,
         fill_type, CW_ATT_RW, 0, CW_CHAR),
     Att("channel_number", CW_O_CHANNEL_NUMBER,
         channel_number, CW_ATT_RO, 0, CW_CHAR),
     Att("data_id", CW_O_DATA_ID,
         data_id_codes, CW_ATT_RO, 0, CW_CHAR),
     Att("sun_normalization", CW_O_SUN_NORMALIZATION,
         sun_normalization, CW_ATT_RW, 0, CW_CHAR),
     Att("limb_correction", CW_O_LIMB_CORRECTION,
         limb_correction, CW_ATT_RW, 0, CW_CHAR),
     Att("nonlinearity_correction", CW_O_NONLINEARITY_CORRECTION,
         nonlinearity_correction, CW_ATT_RW, 0, CW_CHAR),
     Att("orbits_processed", CW_O_ORBITS_PROCESSED,
         <<>>, CW_ATT_RW, 0, CW_SHORT),
     Att("channels_produced", CW_O_CHANNELS_PRODUCED,
         <<>>, CW_ATT_RO, 0, CW_SHORT),
     Att("channel_pixel_size", CW_O_CHANNEL_PIXEL_SIZE,
         <<>>, CW_ATT_RO, 0, CW_SHORT),
     Att("channel_start_block", CW_O_CHANNEL_START_BLOCK,
         <<>>, CW_ATT_RW, 0, CW_SHORT),
     Att("channel_end_block", CW_O_CHANNEL_END_BLOCK,
         <<>>, CW_ATT_RW, 0, CW_SHORT),
     Att("ancillaries_produced", CW_O_ANCILLARIES_PRODUCED,
         <<>>, CW_ATT_RO, 0, CW_SHORT),
     Att("ancillary_pixel_size", CW_O_ANCILLARY_PIXEL_SIZE,
         <<>>, CW_ATT_RO, 0, CW_SHORT),
     Att("ancillary_start_block", CW_O_ANCILLARY_START_BLOCK,
         <<>>, CW_ATT_RW, 0, CW_SHORT),
     Att("ancillary_end_block", CW_O_ANCILLARY_END_BLOCK,
         <<>>, CW_ATT_RW, 0, CW_SHORT),
     Att("image_block_size", CW_O_IMAGE_BLOCK_SIZE,
         <<>>, CW_ATT_RW, 0, CW_SHORT),
     Att("compression_type", CW_O_COMPRESSION_TYPE,
         compression_type, CW_ATT_RO, 0, CW_CHAR),
     Att("percent_non_zero", CW_O_PERCENT_NON_ZERO,
         <<>>, CW_ATT_RW, 0, CW_SHORT),
     Att("horizontal_shift", CW_O_HORIZONTAL_SHIFT,
         <<>>, CW_ATT_RW, 0, CW_SHORT),
     Att("vertical_shift", CW_O_VERTICAL_SHIFT,
         <<>>, CW_ATT_RW, 0, CW_SHORT),
     Att("horizontal_skew", CW_O_HORIZONTAL_SKEW,
         <<>>, CW_ATT_RW, 0, CW_SHORT),
     Att("vertical_skew", CW_O_VERTICAL_SKEW,
         <<>>, CW_ATT_RW, 0, CW_SHORT),
     Att("orbit_type", CW_O_ORBIT_TYPE,
         orbit_type, CW_ATT_RW, 0, CW_CHAR),
     Att("orbit_time", CW_O_ORBIT_TIME,
         orbit_time, CW_ATT_RW, 0, CW_CHAR),
     Att("start_row", CW_O_START_ROW,
         <<>>, CW_ATT_RW, 0, CW_SHORT),
     Att("start_column", CW_O_START_COLUMN,
         <<>>, CW_ATT_RW, 0, CW_SHORT),
     Att("end_row", CW_O_END_ROW,
         <<>>, CW_ATT_RW, 0, CW_SHORT),
     Att("end_column", CW_O_END_COLUMN,
         <<>>, CW_ATT_RW, 0, CW_SHORT),
     Att("orbit_start_year", CW_O_ORBIT_START_YEAR,
         <<>>, CW_ATT_RW, 0, CW_SHORT),
     Att("orbit_start_day", CW_O_ORBIT_START_DAY,
         <<>>, CW_ATT_RW, 0, CW_SHORT),
     Att("orbit_start_month_day", CW_O_ORBIT_START_MONTH_DAY,
         <<>>, CW_ATT_RW, 0, CW_SHORT),
     Att("orbit_start_hour_minute", CW_O_ORBIT_START_HOUR_MINUTE,
         <<>>, CW_ATT_RW, 0, CW_SHORT),
     Att("orbit_start_second", CW_O_ORBIT_START_SECOND,
         <<>>, CW_ATT_RW, 0, CW_SHORT),
     Att("orbit_start_millisecond", CW_O_ORBIT_START_MILLISECOND,
         <<>>, CW_ATT_RW, 0, CW_SHORT),
     Att("orbit_end_year", CW_O_ORBIT_END_YEAR,
         <<>>, CW_ATT_RW, 0, CW_SHORT),
     Att("orbit_end_day", CW_O_ORBIT_END_DAY,
         <<>>, CW_ATT_RW, 0, CW_SHORT),
     Att("orbit_end_month_day", CW_O_ORBIT_END_MONTH_DAY,
         <<>>, CW_ATT_RW, 0, CW_SHORT),
     Att("orbit_end_hour_minute", CW_O_ORBIT_END_HOUR_MINUTE,
         <<>>, CW_ATT_RW, 0, CW_SHORT),
     Att("orbit_end_second", CW_O_ORBIT_END_SECOND,
         <<>>, CW_ATT_RW, 0, CW_SHORT),
     Att("orbit_end_millisecond", CW_O_ORBIT_END_MILLISECOND,
         <<>>, CW_ATT_RW, 0, CW_SHORT) >>

----------------------------------------------------------------------------
(* Machine integers *)

\* conversion to short: the low 16 bits, as a signed value
ToShort(v) == LET m == v % 65536 IN IF m >= 32768 THEN m - 65536 ELSE m

\* conversion to unsigned short / unsigned char
ToUShort(v) == v % 65536
ToUChar(v) == v % 256

\* the unsigned order of two size_t values
ULess(a, b) ==
  IF (a < 0) = (b < 0) THEN a < b ELSE b < 0

UGreater(a, b) == ULess(b, a)

Abs(v) == IF v < 0 THEN -v ELSE v
Min(a, b) == IF a < b THEN a ELSE b
Max(a, b) == IF a > b THEN a ELSE b

----------------------------------------------------------------------------
(* Files and streams *)

NULL == [null |-> TRUE]
NoFile == [size |-> -1, bytes |-> [o \in {} |-> 0]]
EmptyFile == [size |-> 0, bytes |-> [o \in {} |-> 0]]

ReadByte(f, off) == IF off \in DOMAIN f.bytes THEN f.bytes[off] ELSE 0

\* fread of n bytes at off succeeds when the file holds them all
CanRead(f, off, n) == off >= 0 /\ off + n <= f.size

\* fwrite of the byte sequence bs at offset off (a gap past the end reads 0)
WriteBytes(f, off, bs) ==
  LET n == Len(bs)
      val(o) == IF o >= off /\ o < off + n THEN bs[o - off + 1] ELSE f.bytes[o]
      dom == (DOMAIN f.bytes) \cup {off + i - 1 : i \in 1..n}
      nz == {o \in dom : val(o) # 0}
  IN [size |-> IF n > 0 THEN Max(f.size, off + n) ELSE f.size,
      bytes |-> [o \in nz |-> val(o)]]

\* the two bytes of a 16-bit value, most significant first
Bytes16(v) == LET u == v % 65536 IN <<u \div 256, u % 256>>

\* the unsigned 16-bit value stored at off
Word16(f, off) == ReadByte(f, off) * 256 + ReadByte(f, off + 1)

Zeros(n) == [i \in 1..n |-> 0]

\* a stream can be written unless it was opened "rb"
Writable(fp) == fp.mode # "rb"

\* cw_get_att: rc 0 and the short at the offset, or rc -2 when the read fails
cw_get_att(f, att_offset) ==
  IF CanRead(f, att_offset, 2)
  THEN [rc |-> 0, code |-> ToShort(Word16(f, att_offset))]
  ELSE [rc |-> -2, code |-> 0]

\* cw_put_att: rc 0 and the file with the short stored, or rc -2
cw_put_att(fp, f, att_code, att_offset) ==
  IF Writable(fp)
  THEN [rc |-> 0, file |-> WriteBytes(f, att_offset, Bytes16(att_code))]
  ELSE [rc |-> -2, file |-> f]

----------------------------------------------------------------------------
(* Table lookups *)

RECURSIVE LookupCode(_, _, _)
\* cw_lookup_att_code over a code table: the code of a name, or "none"
LookupCode(table, name, i) ==
  IF i > Len(table) THEN [found |-> FALSE, code |-> 0]
  ELSE IF table[i][1] = name THEN [found |-> TRUE, code |-> table[i][2]]
  ELSE LookupCode(table, name, i + 1)

cw_lookup_att_code(table, name) == LookupCode(table, name, 1)

\* cw_lookup_dimid: the index of a dimension name, or -1
cw_lookup_dimid(name) ==
  IF name = cw_dimensions[1][1] THEN 0
  ELSE IF name = cw_dimensions[2][1] THEN 1
  ELSE -1

----------------------------------------------------------------------------
(* The handle table *)

Slots == 0..(CW_MAX_FILES - 1)

\* the file a handle's stream fp reads and writes
HFile(h, files) == IF h.fp.kind = "tmp" THEN h.tmp ELSE files[h.path]

\* the handle and file system after the handle's stream content became f
PutHFile(h, files, f) ==
  IF h.fp.kind = "tmp"
  THEN [h |-> [h EXCEPT !.tmp = f], fs |-> files]
  ELSE [h |-> h, fs |-> [files EXCEPT ![h.path] = f]]

\* the slot search of cw_create and cw_open from slot id on: the first
\* free slot.  The loop tests cw_files[id] before id < CW_MAX_FILES, so with
\* every slot taken it reads the word after the table: the search ends at
\* CW_MAX_FILES if that word is null (past) and one further if it is not.
FindSlot(table, id, past) ==
  LET free == {k \in id..(CW_MAX_FILES - 1) : table[k] = NULL}
  IN IF free = {} THEN (IF past THEN CW_MAX_FILES ELSE CW_MAX_FILES + 1)
     ELSE CHOOSE k \in free : \A m \in free : k <= m

\* the table after cw_files[id] = h; a store past the table is undefined
\* and leaves the table as it is
Store(table, id, h) ==
  IF id \in DOMAIN table THEN [table EXCEPT ![id] = h] ELSE table

----------------------------------------------------------------------------
(* Raw pixel I/O *)

\* a pair indexed like the C arrays start[], count[], dims[], shift[]
Pair(a, b) == [i \in 0..1 |-> IF i = 0 THEN a ELSE b]

\* one stored pixel: a 16-bit word or a byte
PixelAt(f, pixel_size, off) ==
  IF pixel_size = 2 THEN Word16(f, off) ELSE ReadByte(f, off)

\* the shifted and clipped source window of cw_get_raw (shift given)
tmp_start0(start, shift, i) == ToShort(ToShort(start[i]) - shift[i])
tmp_end0(start, count, shift, i) ==
  ToShort(tmp_start0(start, shift, i) + ToShort(count[i]) - 1)

\* cw_get_raw returns at once, the buffer all zero
ShiftOutside(dims, start, count, shift) ==
  \E i \in 0..1 : \/ tmp_start0(start, shift, i) > dims[i] - 1
                  \/ tmp_end0(start, count, shift, i) < 0

s_ucp(start, shift, i) == Abs(Min(0, tmp_start0(start, shift, i)))

tmp_start1(dims, start, shift, i) ==
  ToShort(Max(0, Min(tmp_start0(start, shift, i), dims[i])))

tmp_end1(dims, start, count, shift, i) ==
  ToShort(Max(0, Min(tmp_end0(start, count, shift, i), dims[i] - 1)))

\* cw_get_raw: [rc, raw], raw the count[0]*count[1] pixels of the window in
\* row-major order.  shift is NULL or a pair of shorts.
cw_get_raw(f, pixel_size, dims, start, count, shift) ==
  LET len == count[CW_ROWS] * count[CW_COLUMNS]
      zero == [k \in 1..len |-> 0]
  IN
  IF shift # NULL /\ ShiftOutside(dims, start, count, shift)
  THEN [rc |-> CW_NOERR, raw |-> zero]
  ELSE
  LET s_start == IF shift = NULL THEN start
                 ELSE [i \in 0..1 |-> tmp_start1(dims, start, shift, i)]
      s_count == IF shift = NULL THEN count
                 ELSE [i \in 0..1 |-> tmp_end1(dims, start, count, shift, i)
                                        - tmp_start1(dims, start, shift, i) + 1]
      u == IF shift = NULL THEN Pair(0, 0)
           ELSE [i \in 0..1 |-> s_ucp(start, shift, i)]
      cols == dims[CW_COLUMNS]
      rowstep == cols * pixel_size
      headlen == rowstep
      \* the file offset of source pixel (row, col)
      off(row, col) == headlen + row * rowstep + col * pixel_size
      rowsRead == s_start[CW_ROWS]..(s_start[CW_ROWS] + s_count[CW_ROWS] - 1)
      readOk == \A row \in rowsRead :
                  CanRead(f, off(row, s_start[CW_COLUMNS]),
                          s_count[CW_COLUMNS] * pixel_size)
      \* output element k (from 1) is row r, column c of the window
      r(k) == (k - 1) \div count[CW_COLUMNS]
      c(k) == (k - 1) % count[CW_COLUMNS]
      filled(k) == /\ r(k) >= u[CW_ROWS]
                   /\ r(k) < u[CW_ROWS] + s_count[CW_ROWS]
                   /\ c(k) >= u[CW_COLUMNS]
                   /\ c(k) < u[CW_COLUMNS] + s_count[CW_COLUMNS]
      val(k) == IF filled(k)
                THEN PixelAt(f, pixel_size,
                       off(s_start[CW_ROWS] + r(k) - u[CW_ROWS],
                           s_start[CW_COLUMNS] + c(k) - u[CW_COLUMNS]))
                ELSE 0
  IN IF readOk THEN [rc |-> CW_NOERR, raw |-> [k \in 1..len |-> val(k)]]
     ELSE [rc |-> CW_ERR_READ_DATA, raw |-> zero]

\* the bytes of pixels raw[from..to]
PixelBytes(raw, pixel_size, from, to) ==
  IF pixel_size = 2
  THEN [i \in 1..(2 * (to - from + 1)) |->
          Bytes16(raw[from + (i - 1) \div 2])[2 - (i % 2)]]
  ELSE [i \in 1..(to - from + 1) |-> raw[from + i - 1] % 256]

RECURSIVE PutRows(_, _, _, _, _, _, _)
\* the rows row..count[0]-1 of the window written one after the other
PutRows(f, raw, pixel_size, dims, start, count, row) ==
  IF row >= count[CW_ROWS] THEN f
  ELSE LET rowstep == dims[CW_COLUMNS] * pixel_size
           off == rowstep + (start[CW_ROWS] + row) * rowstep
                    + start[CW_COLUMNS] * pixel_size
           bs == PixelBytes(raw, pixel_size, row * count[CW_COLUMNS] + 1,
                            (row + 1) * count[CW_COLUMNS])
       IN PutRows(WriteBytes(f, off, bs), raw, pixel_size, dims, start,
                  count, row + 1)

\* cw_put_raw: [rc, file]
cw_put_raw(fp, f, raw, pixel_size, dims, start, count) ==
  IF count[CW_ROWS] > 0 /\ count[CW_COLUMNS] > 0 /\ ~Writable(fp)
  THEN [rc |-> CW_ERR_WRITE_DATA, file |-> f]
  ELSE [rc |-> CW_NOERR,
        file |-> PutRows(f, raw, pixel_size, dims, start, count, 0)]

----------------------------------------------------------------------------
(* Handles *)

\* a stream: where its bytes live and how it was opened
DiskStream(mode) == [kind |-> "disk", mode |-> mode]
TmpStream == [kind |-> "tmp", mode |-> "w+b"]

\* the cw_file_type structure.  ufp is TRUE when the handle has an
\* uncompressed working copy (tmp holds the bytes of that temporary file).
cw_file_type(fp, path, defmode, wmode) ==
  [fp |-> fp, ufp |-> FALSE, path |-> path, defmode |-> defmode,
   wmode |-> wmode, data_id |-> -1, graphics |-> -1,
   dims |-> Pair(-1, -1), pixel_size |-> -1, tmp |-> NoFile]

\* the n bytes of f from offset off
FileBytes(f, off, n) == [i \in 1..n |-> ReadByte(f, off + i - 1)]

----------------------------------------------------------------------------
(* 1B compression *)

\* the channel value and the graphics nibble of a stored 16-bit pixel
CW_UNC_RVAL(a) ==
  ((a % 32768) \div 16) * (IF a >= 32768 THEN -1 ELSE 1)

CW_UNC_RGRA(a) == a % 16

\* a variant of CW_UNC_W that stores the channel value alone
CW_UNC_WChannel(a, b) ==
  LET m == (Abs(a) * 16) % 65536
      top == IF a < 0 \/ m >= 32768 THEN 32768 ELSE 0
  IN top + (m % 32768)

\* the stored pixel of channel value a and graphics b: |a| << 4, the sign
\* bit, and the nibble, or-ed together and cut to 16 bits
CW_UNC_W(a, b) ==
  LET m == (Abs(a) * 16) % 65536
      top == IF a < 0 \/ m >= 32768 THEN 32768 ELSE 0
  IN top + (m % 32768) + (b % 16)

\* a value written in full: two bytes
CW_COM_WVAL_B1(a) ==
  LET hi == (Abs(a) \div 256) % 256
      \* hi | 0x08 | 0x80, bit by bit
      b3 == IF a < 0 \/ (hi \div 8) % 2 = 1 THEN 8 ELSE 0
      b7 == 128
  IN (hi % 8) + b3 + ((hi \div 16) % 8) * 16 + b7

CW_COM_WVAL_B2(a) == Abs(a) % 256

\* a difference written in one byte
CW_COM_WVAL(a) ==
  LET m == Abs(a) % 256
      b6 == IF a < 0 \/ (m \div 64) % 2 = 1 THEN 64 ELSE 0
  IN (m % 64) + b6

RECURSIVE Flatten(_, _, _)
\* the sequences seqs[lo..hi] joined in order
Flatten(seqs, lo, hi) ==
  IF lo > hi THEN <<>>
  ELSE IF lo = hi THEN seqs[lo]
  ELSE LET mid == (lo + hi) \div 2
       IN Flatten(seqs, lo, mid) \o Flatten(seqs, mid + 1, hi)

\* the compressed channel stream of the values data: each value is written
\* after the one before it (lastd), the very first always in full
ComData(data) ==
  LET bytes(k) == IF k = 1 \/ Abs(data[k] - data[k - 1]) > 63
                  THEN <<CW_COM_WVAL_B1(data[k]), CW_COM_WVAL_B2(data[k])>>
                  ELSE <<CW_COM_WVAL(data[k] - data[k - 1])>>
  IN Flatten([k \in 1..Len(data) |-> bytes(k)], 1, Len(data))

\* the inner for loop of the graphics writer from column j: the first
\* column e >= j where the loop test fails (the run has ended, the row has
\* ended, or 255 repeats are counted)
RunEnd(graphics, j) ==
  LET goes(e) == e < Len(graphics) /\ graphics[e] = graphics[e + 1]
                   /\ e - j < 255
      stops == {e \in j..Len(graphics) : ~goes(e)}
  IN CHOOSE e \in stops : \A m \in stops : e <= m

RECURSIVE ComGraphicsRow(_, _)
\* the run-length pairs of one row of graphics nibbles, from column j
ComGraphicsRow(graphics, j) ==
  IF j > Len(graphics) THEN <<>>
  ELSE LET e == RunEnd(graphics, j)
       IN <<graphics[j], (e - j) % 256>> \o ComGraphicsRow(graphics, e + 1)

RECURSIVE ComGraphics(_, _, _, _)
\* the graphics stream of rows i..rows-1
ComGraphics(raw, rows, columns, i) ==
  IF i >= rows THEN <<>>
  ELSE ComGraphicsRow([j \in 1..columns |->
                         CW_UNC_RGRA(raw[i * columns + j])], 1)
       \o ComGraphics(raw, rows, columns, i + 1)

\* cw_compress: [rc, h, fs].  The file at the handle's path is rewritten in
\* the compressed layout from the working copy and becomes the handle's
\* stream.
cw_compress(h, files) ==
  LET ufp == h.tmp
      rows == h.dims[CW_ROWS]
      columns == h.dims[CW_COLUMNS]
      headlen == columns * 2
      cfp == DiskStream("wb")
      trunc == [files EXCEPT ![h.path] = EmptyFile]
      head == WriteBytes(EmptyFile, 0, FileBytes(ufp, 0, headlen))
      padded == IF headlen < CW_HEAD_COMP
                THEN WriteBytes(head, headlen, Zeros(CW_HEAD_COMP - headlen))
                ELSE head
      npix == rows * columns
      rowOk == \A i \in 0..(rows - 1) :
                 CanRead(ufp, headlen + i * headlen, headlen)
      raw == [k \in 1..npix |-> Word16(ufp, headlen + (k - 1) * 2)]
      data == [k \in 1..npix |-> CW_UNC_RVAL(raw[k])]
      stream == ComData(data) \o ComGraphics(raw, rows, columns, 0)
  IN
  IF columns < 0
  THEN [rc |-> CW_ERR_NOMEM, h |-> h, fs |-> trunc]
  ELSE IF ~CanRead(ufp, 0, headlen)
  THEN [rc |-> CW_ERR_READ_DATA, h |-> h, fs |-> trunc]
  ELSE IF rows < 0 \/ ~rowOk
  THEN [rc |-> CW_ERR_READ_DATA, h |-> h,
        fs |-> [files EXCEPT ![h.path] = padded]]
  ELSE [rc |-> CW_NOERR,
        h |-> [h EXCEPT !.fp = cfp, !.ufp = FALSE, !.tmp = NoFile],
        fs |-> [files EXCEPT
                  ![h.path] = WriteBytes(padded, CW_HEAD_COMP, stream)]]

----------------------------------------------------------------------------
(* 1B uncompression *)

CW_COM_ISMVAL(a) == a >= 128

\* a value read in full: the low nibble of the first byte (sign bit 0x08
\* included) and the second byte, negated when 0x08 is set
CW_COM_RMVAL(a, b) ==
  ((a % 16) * 256 + b) * (IF (a \div 8) % 2 = 1 THEN -1 ELSE 1)

\* a difference read from one byte, added to the last value
CW_COM_RVAL(l, a) ==
  l + (a % 64) * (IF (a \div 64) % 2 = 1 THEN -1 ELSE 1)

RECURSIVE UncRun(_, _, _, _, _, _)
\* the channel values k..stop-1 read from the compressed file at pos:
\* [rc, pos, lastd, data]
UncRun(cfile, pos, k, stop, lastd, acc) ==
  IF k >= stop
  THEN [rc |-> CW_NOERR, pos |-> pos, lastd |-> lastd, data |-> acc]
  ELSE IF ~CanRead(cfile, pos, 1)
  THEN [rc |-> CW_ERR_READ_DATA, pos |-> pos, lastd |-> lastd, data |-> acc]
  ELSE LET b0 == ReadByte(cfile, pos)
       IN IF CW_COM_ISMVAL(b0)
          THEN IF ~CanRead(cfile, pos + 1, 1)
               THEN [rc |-> CW_ERR_READ_DATA, pos |-> pos, lastd |-> lastd,
                     data |-> acc]
               ELSE LET v == CW_COM_RMVAL(b0, ReadByte(cfile, pos + 1))
                    IN UncRun(cfile, pos + 2, k + 1, stop, v, Append(acc, v))
          ELSE IF k = 0
          THEN [rc |-> CW_ERR_COM_BYTE0, pos |-> pos, lastd |-> lastd,
                data |-> acc]
          ELSE LET v == ToShort(CW_COM_RVAL(lastd, b0))
               IN UncRun(cfile, pos + 1, k + 1, stop, v, Append(acc, v))

RECURSIVE UncData(_, _, _, _, _, _)
\* the channel values k..npix-1, read sixteen at a time: [rc, pos, data]
UncData(cfile, pos, k, npix, lastd, acc) ==
  IF k >= npix THEN [rc |-> CW_NOERR, pos |-> pos, data |-> acc]
  ELSE LET part == UncRun(cfile, pos, k, Min(k + 16, npix), lastd, acc)
       IN IF part.rc # CW_NOERR
          THEN [rc |-> part.rc, pos |-> part.pos, data |-> part.data]
          ELSE UncData(cfile, part.pos, Min(k + 16, npix), npix, part.lastd,
                       part.data)

RECURSIVE UncGraphicsRow(_, _, _, _, _, _)
\* the read loop of one graphics row from column j on: [rc, pos, row, b1, k]
\* with b1 the last repeat byte read and k the repeats used from it
UncGraphicsRow(cfile, pos, j, columns, row, last) ==
  IF j >= columns
  THEN [rc |-> CW_NOERR, pos |-> pos, row |-> row, b1 |-> last.b1,
        k |-> last.k]
  ELSE IF ~CanRead(cfile, pos, 2)
  THEN [rc |-> CW_ERR_READ_DATA, pos |-> pos, row |-> row, b1 |-> last.b1,
        k |-> last.k]
  ELSE LET b0 == ReadByte(cfile, pos)
           b1 == ReadByte(cfile, pos + 1)
           n == Min(b1 + 1, columns - j)
       IN UncGraphicsRow(cfile, pos + 2, j + n, columns,
                         row \o [x \in 1..n |-> b0], [b1 |-> b1, k |-> n])

RECURSIVE UncGraphics(_, _, _, _, _, _, _, _)
\* the graphics bytes of rows i..rows-1: [rc, ub, graphics].  ub is TRUE
\* when the spilled run is longer than a row, or the row is empty: the code
\* then writes past, or reads before, its row buffer.
UncGraphics(cfile, pos, i, rows, columns, spill, lastg, last) ==
  IF i >= rows THEN [rc |-> CW_NOERR, ub |-> FALSE, graphics |-> <<>>]
  ELSE IF spill > columns \/ columns = 0
  THEN [rc |-> CW_NOERR, ub |-> TRUE, graphics |-> <<>>]
  ELSE LET rd == UncGraphicsRow(cfile, pos, spill, columns,
                                [x \in 1..spill |-> lastg], last)
       IN IF rd.rc # CW_NOERR
          THEN [rc |-> rd.rc, ub |-> FALSE, graphics |-> <<>>]
          ELSE LET rest == UncGraphics(cfile, rd.pos, i + 1, rows, columns,
                                       rd.b1 - rd.k + 1, rd.row[columns],
                                       [b1 |-> rd.b1, k |-> rd.k])
               IN [rc |-> rest.rc, ub |-> rest.ub,
                   graphics |-> rd.row \o rest.graphics]

\* cw_uncompress: [rc, ub, h].  The compressed file of the handle is expanded
\* into a temporary file that becomes the handle's stream and working copy.
cw_uncompress(h, files) ==
  LET cfile == files[h.path]
      rows == h.dims[CW_ROWS]
      columns == h.dims[CW_COLUMNS]
      headlen == CW_HEAD_COMP
      uheadlen == columns * 2
      npix == rows * columns
      head == WriteBytes(EmptyFile, 0, FileBytes(cfile, 0, headlen))
      padded == IF headlen < uheadlen
                THEN WriteBytes(head, headlen, Zeros(uheadlen - headlen))
                ELSE head
      d == UncData(cfile, headlen, 0, npix, 0, <<>>)
      g == UncGraphics(cfile, d.pos, 0, rows, columns, 0, 0,
                       [b1 |-> 0, k |-> 0])
      \* each row is written with zero graphics, read back, and rewritten
      \* with its graphics
      raw == [k \in 1..npix |->
                CW_UNC_W(CW_UNC_RVAL(CW_UNC_W(d.data[k], 0)),
                         g.graphics[k])]
      ufile == PutRows(padded, raw, 2, h.dims, Pair(0, 0),
                       Pair(rows, columns), 0)
      fail(rc) == [rc |-> rc, ub |-> FALSE, h |-> h]
  IN
  IF ~CanRead(cfile, 0, headlen) THEN fail(CW_ERR_READ_DATA)
  ELSE IF columns < 0 THEN fail(CW_ERR_WRITE_DATA)
  ELSE IF rows < 0 THEN fail(CW_ERR_READ_DATA)
  ELSE IF d.rc # CW_NOERR THEN fail(d.rc)
  ELSE IF g.ub THEN [rc |-> CW_NOERR, ub |-> TRUE, h |-> h]
  ELSE IF g.rc # CW_NOERR THEN fail(g.rc)
  ELSE [rc |-> CW_NOERR, ub |-> FALSE,
        h |-> [h EXCEPT !.fp = TmpStream, !.ufp = TRUE, !.tmp = ufile]]

----------------------------------------------------------------------------
(* Floats and calibration *)

CW_BADVAL == <<-999, 1>>
RatEq(a, b) == a[1] * b[2] = b[1] * a[2]
RatLess(a, b) == a[1] * b[2] < b[1] * a[2]
IsBad(f) == RatEq(f, CW_BADVAL)

\* KTOC (178.0f), KTOC (270.0f), KTOC (310.0f), in hundredths
KTOC178 == <<17800 - 27315, 100>>
KTOC270 == <<27000 - 27315, 100>>
KTOC310 == <<31000 - 27315, 100>>

\* roundf: f > 0 ? floor (f+0.5) : ceil (f-0.5)
roundf(f) ==
  IF f[1] > 0 THEN (2 * f[1] + f[2]) \div (2 * f[2])
  ELSE -((f[2] - 2 * f[1]) \div (2 * f[2]))

\* integer division and float-to-integer conversion truncate toward zero
CDiv(a, b) == IF a >= 0 THEN a \div b ELSE -((-a) \div b)
Trunc(f) == CDiv(f[1], f[2])

\* the result of a float-to-integer conversion whose value the target type
\* cannot hold is undefined; Undefined marks it
Undefined == 2 * 65536
ShortOf(v) == IF v >= -32768 /\ v <= 32767 THEN v ELSE Undefined
UShortOf(v) == IF v >= 0 /\ v <= 65535 THEN v ELSE Undefined

\* a code computed from a converted value, cut to a valid range
CodeIn(c, base, lo, hi) ==
  IF c = Undefined THEN Undefined
  ELSE LET sp == ToShort(c + base)
       IN IF sp < lo \/ sp > hi THEN 0 ELSE sp

cw_uncal_raw(f) ==
  IF IsBad(f) THEN 0 ELSE CodeIn(ShortOf(roundf(f)), 1, 1, 1024)

cw_uncal_visible(f) ==
  IF IsBad(f) THEN 0
  ELSE CodeIn(ShortOf(roundf(<<f[1] * 2047, f[2] * 100>>)), 1, 1, 2047)

cw_uncal_ir(f) ==
  IF IsBad(f) \/ RatLess(f, KTOC178) THEN 0
  ELSE IF RatEq(f, KTOC178) THEN 1
  ELSE IF RatLess(f, KTOC270)
  THEN CodeIn(ShortOf(roundf(<<f[1] * 100 + 9515 * f[2], f[2] * 10>>)),
              1, 1, 2047)
  ELSE IF ~RatLess(KTOC310, f)
  THEN CodeIn(ShortOf(roundf(<<f[1] * 100 + 315 * f[2], f[2] * 5>>)),
              921, 1, 2047)
  ELSE CodeIn(ShortOf(roundf(<<f[1] * 100 - 3685 * f[2], f[2] * 10>>)),
              1721, 1, 2047)

cw_cal_raw(sp, compression) ==
  IF compression = CW_COMPRESSION_TYPE_FLAT
  THEN IF sp < 0 \/ sp > 1023 THEN CW_BADVAL ELSE <<sp, 1>>
  ELSE IF sp < 1 \/ sp > 1024 THEN CW_BADVAL ELSE <<sp - 1, 1>>

cw_cal_visible(sp, compression) ==
  IF compression = CW_COMPRESSION_TYPE_FLAT
  THEN IF sp < 0 \/ sp > 10000 THEN CW_BADVAL ELSE <<sp, 100>>
  ELSE IF sp < 1 \/ sp > 2047 THEN CW_BADVAL ELSE <<(sp - 1) * 100, 2047>>

\* a variant of cw_cal_ir with the step 0.1 in the middle segment too
CalIrEvenSteps(sp, compression, channel) ==
  IF compression = CW_COMPRESSION_TYPE_FLAT
  THEN IF channel <= CW_CHANNEL_NUMBER_AVHRR5
       THEN IF sp < 0 \/ sp > 32760 THEN CW_BADVAL ELSE <<sp - 27315, 100>>
       ELSE IF sp < -4000 \/ sp > 4000 THEN CW_BADVAL ELSE <<sp, 100>>
  ELSE IF sp < 1 \/ sp > 2047 THEN CW_BADVAL
  ELSE IF sp < 921 THEN <<(sp - 1) * 10 + KTOC178[1], 100>>
  ELSE IF sp <= 1721 THEN <<(sp - 921) * 10 + KTOC270[1], 100>>
  ELSE <<(sp - 1721) * 10 + KTOC310[1], 100>>

cw_cal_ir(sp, compression, channel) ==
  IF compression = CW_COMPRESSION_TYPE_FLAT
  THEN IF channel <= CW_CHANNEL_NUMBER_AVHRR5
       THEN IF sp < 0 \/ sp > 32760 THEN CW_BADVAL ELSE <<sp - 27315, 100>>
       ELSE IF sp < -4000 \/ sp > 4000 THEN CW_BADVAL ELSE <<sp, 100>>
  ELSE IF sp < 1 \/ sp > 2047 THEN CW_BADVAL
  ELSE IF sp < 921 THEN <<(sp - 1) * 10 + KTOC178[1], 100>>
  ELSE IF sp <= 1721
  THEN LET f == <<(sp - 921) * 5 + KTOC270[1], 100>>
       IN IF Abs(f[1]) * 100 < f[2] THEN <<0, 1>> ELSE f
  ELSE <<(sp - 1721) * 10 + KTOC310[1], 100>>

\* the calibration type used: an unknown one counts as albedo/temperature
GuessCalibration(calibration) ==
  IF calibration # CW_CALIBRATION_TYPE_RAW
  THEN CW_CALIBRATION_TYPE_ALBEDO_TEMPERATURE ELSE calibration

\* cw_decode_channel, float output: [rc, data]
cw_decode_channel(usp, calibration, data_id, compression, channel) ==
  LET sp(k) == IF compression # CW_COMPRESSION_TYPE_FLAT
               THEN CW_UNC_RVAL(usp[k]) ELSE ToShort(usp[k])
      cal == GuessCalibration(calibration)
      val(k) == IF cal = CW_CALIBRATION_TYPE_RAW
                THEN cw_cal_raw(sp(k), compression)
                ELSE IF data_id = CW_DATA_ID_VISIBLE
                THEN cw_cal_visible(sp(k), compression)
                ELSE cw_cal_ir(sp(k), compression, channel)
  IN [rc |-> CW_NOERR, data |-> [k \in 1..Len(usp) |-> val(k)]]

\* cw_encode_channel with float data fp and graphics ucp: [rc, raw]
cw_encode_channel(fp, ucp, calibration, data_id) ==
  LET cal == GuessCalibration(calibration)
      sp(k) == IF cal = CW_CALIBRATION_TYPE_RAW THEN cw_uncal_raw(fp[k])
               ELSE IF data_id = CW_DATA_ID_VISIBLE
               THEN cw_uncal_visible(fp[k])
               ELSE cw_uncal_ir(fp[k])
  IN [rc |-> CW_NOERR,
      raw |-> [k \in 1..Len(fp) |->
                 IF sp(k) = Undefined THEN Undefined
                 ELSE CW_UNC_W(sp(k), ucp[k])]]

IsAngle(channel) ==
  channel \in {CW_CHANNEL_NUMBER_SCAN_ANGLE, CW_CHANNEL_NUMBER_SAT_ZENITH,
               CW_CHANNEL_NUMBER_SOL_ZENITH, CW_CHANNEL_NUMBER_REL_AZIMUTH}

\* the scan time stored for float f: hours * 100 + minutes
EncodeTime(f) ==
  LET hours == ShortOf(Trunc(f))
      minutes == ShortOf(roundf(<<(f[1] - hours * f[2]) * 60, f[2]>>))
  IN IF hours = Undefined THEN Undefined
     ELSE IF minutes = Undefined THEN Undefined
     ELSE (hours * 100 + minutes) % 65536

\* the scan time read back from the stored value
DecodeTime(usp) ==
  LET hours == CDiv(ToShort(usp), 100)
      minutes == ToShort(usp) - hours
  IN <<hours * 60 + minutes, 60>>

\* cw_decode_ancillary: [rc, data]
cw_decode_ancillary(usp, channel, compression) ==
  LET angle(k) == IF compression = CW_COMPRESSION_TYPE_FLAT
                  THEN <<usp[k], 100>>
                  ELSE IF usp[k] = 0 THEN CW_BADVAL
                  ELSE <<usp[k] - 1, 128>>
  IN IF IsAngle(channel)
     THEN [rc |-> CW_NOERR, data |-> [k \in 1..Len(usp) |-> angle(k)]]
     ELSE IF channel = CW_CHANNEL_NUMBER_SCAN_TIME
     THEN [rc |-> CW_NOERR,
           data |-> [k \in 1..Len(usp) |-> DecodeTime(usp[k])]]
     ELSE [rc |-> CW_ERR_UNSUP_CHANNEL_NUMBER, data |-> <<>>]

\* cw_encode_ancillary: [rc, raw]
cw_encode_ancillary(fp, channel) ==
  LET angle(k) == IF IsBad(fp[k]) THEN 0
                  ELSE LET c == UShortOf(roundf(<<fp[k][1] * 128, fp[k][2]>>))
                       IN IF c = Undefined THEN Undefined
                          ELSE (c + 1) % 65536
  IN IF IsAngle(channel)
     THEN [rc |-> CW_NOERR, raw |-> [k \in 1..Len(fp) |-> angle(k)]]
     ELSE IF channel = CW_CHANNEL_NUMBER_SCAN_TIME
     THEN [rc |-> CW_NOERR,
           raw |-> [k \in 1..Len(fp) |-> EncodeTime(fp[k])]]
     ELSE [rc |-> CW_ERR_UNSUP_CHANNEL_NUMBER, raw |-> <<>>]

\* cw_cast_frombyte: [rc, data]
cw_cast_frombyte(byte, type) ==
  IF type = CW_BYTE THEN [rc |-> CW_NOERR, data |-> byte]
  ELSE IF type = CW_FLOAT
  THEN [rc |-> CW_NOERR, data |-> [k \in 1..Len(byte) |-> <<byte[k], 1>>]]
  ELSE [rc |-> CW_ERR_VAR_VALUE, data |-> <<>>]

\* cw_cast_tofloat: [rc, fp]
cw_cast_tofloat(data, type) ==
  IF type = CW_BYTE
  THEN [rc |-> CW_NOERR, fp |-> [k \in 1..Len(data) |-> <<data[k], 1>>]]
  ELSE IF type = CW_FLOAT THEN [rc |-> CW_NOERR, fp |-> data]
  ELSE [rc |-> CW_ERR_VAR_VALUE, fp |-> <<>>]

----------------------------------------------------------------------------
(* Dataset, dimension and variable functions.  Each takes the handle table *)
(* and the file system and gives the return code, the new table and file   *)
(* system, and the values stored through its pointer arguments.            *)

R(rc, table, files, o) ==
  [ret |-> rc, cw_files |-> table, fs |-> files, out |-> o, ub |-> FALSE]

\* the minimal header: the magic number and CW_HEAD_MIN - 1 zero bytes
HeaderFile ==
  WriteBytes(EmptyFile, 0, <<CW_MAGIC_NUM>> \o Zeros(CW_HEAD_MIN - 1))

cw_create(table, files, path, cmode, past) ==
  LET id == FindSlot(table, 0, past)
      h == cw_file_type(DiskStream("w+b"), path, TRUE, CW_WRITE)
  IN
  IF cmode \notin {CW_CLOBBER, CW_NOCLOBBER}
  THEN R(CW_ERR_CREATE_MODE, table, files, <<>>)
  ELSE IF id = CW_MAX_FILES
  THEN R(CW_ERR_MAX_FILES, table, files, <<>>)
  ELSE IF cmode = CW_NOCLOBBER /\ files[path] # NoFile
  THEN R(CW_ERR_CREATE_EXISTS, table, files, <<>>)
  ELSE [R(CW_NOERR, Store(table, id, h),
           [files EXCEPT ![path] = HeaderFile], <<id>>)
          EXCEPT !.ub = id > CW_MAX_FILES]

\* a variant of OpenedHandle whose handle starts in define mode
OpenedInDefineMode(fp, path, omode) == cw_file_type(fp, path, TRUE, omode)

\* the structure cw_open fills in: the handle is not in define mode
OpenedHandle(fp, path, omode) == cw_file_type(fp, path, FALSE, omode)

cw_open(table, files, path, omode, past) ==
  LET id == FindSlot(table, 0, past)
      f == files[path]
      fp == DiskStream(IF omode = CW_NOWRITE THEN "rb" ELSE "r+b")
      data_id == cw_get_att(f, CW_O_DATA_ID)
      rows == cw_get_att(f, CW_O_ROWS)
      columns == cw_get_att(f, CW_O_COLUMNS)
      chsize == cw_get_att(f, CW_O_CHANNEL_PIXEL_SIZE)
      ansize == cw_get_att(f, CW_O_ANCILLARY_PIXEL_SIZE)
      compression == cw_get_att(f, CW_O_COMPRESSION_TYPE)
      h0 == [OpenedHandle(fp, path, omode) EXCEPT
               !.data_id = data_id.code,
               !.dims = Pair(rows.code, columns.code)]
      fail(rc) == R(rc, table, files, <<>>)
      ok(h) == [R(CW_NOERR, Store(table, id, h), files, <<id>>)
                  EXCEPT !.ub = id > CW_MAX_FILES]
  IN
  IF omode \notin {CW_NOWRITE, CW_WRITE} THEN fail(CW_ERR_ACCESS_MODE)
  ELSE IF id = CW_MAX_FILES THEN fail(CW_ERR_MAX_FILES)
  ELSE IF f = NoFile THEN fail(CW_ERR_ACCESS)
  ELSE IF ~CanRead(f, 0, 1) THEN fail(CW_ERR_MAGIC_READ)
  ELSE IF ReadByte(f, 0) # CW_MAGIC_NUM THEN fail(CW_ERR_MAGIC)
  ELSE IF data_id.rc # 0 \/ rows.rc # 0 \/ columns.rc # 0
  THEN fail(CW_ERR_READ_ATT)
  ELSE IF data_id.code \in {CW_DATA_ID_VISIBLE, CW_DATA_ID_IR}
  THEN IF chsize.rc # 0 THEN fail(CW_ERR_READ_ATT)
       ELSE IF chsize.code # 2 THEN fail(CW_ERR_UNSUP_PIXEL_SIZE)
       ELSE IF compression.rc # 0 THEN fail(CW_ERR_READ_ATT)
       ELSE ok([h0 EXCEPT !.pixel_size = 2,
                  !.graphics =
                    IF compression.code = CW_COMPRESSION_TYPE_FLAT
                    THEN -1 ELSE 1])
  ELSE IF data_id.code = CW_DATA_ID_ANCILLARY
  THEN IF ansize.rc # 0 THEN fail(CW_ERR_READ_ATT)
       ELSE IF ansize.code # 2 THEN fail(CW_ERR_UNSUP_PIXEL_SIZE)
       ELSE ok([h0 EXCEPT !.pixel_size = 2, !.graphics = -1])
  ELSE IF data_id.code = CW_DATA_ID_CLOUD
  THEN ok([h0 EXCEPT !.pixel_size = 1, !.graphics = -1])
  ELSE fail(CW_ERR_UNSUP_DATA_ID)

cw_def_dim(table, files, cwid, name, len) ==
  LET h == table[cwid]
      dimid == cw_lookup_dimid(name)
      put == cw_put_att(h.fp, HFile(h, files), ToShort(len),
                        cw_dimensions[dimid + 1][2])
      new == PutHFile([h EXCEPT !.dims[dimid] = ToShort(len)], files,
                      put.file)
  IN
  IF h = NULL THEN R(CW_ERR_DATASET_ID, table, files, <<>>)
  ELSE IF ~h.defmode THEN R(CW_ERR_NOT_DEFINE_MODE, table, files, <<>>)
  ELSE IF dimid = -1 THEN R(CW_ERR_DIM, table, files, <<>>)
  \* the lookup has stored the dimension id in *dimidp by now
  ELSE IF h.dims[dimid] # -1
  THEN R(CW_ERR_DIM_DEFINED, table, files, <<dimid>>)
  ELSE IF put.rc # 0 THEN R(CW_ERR_WRITE_DIM, table, files, <<dimid>>)
  ELSE R(CW_NOERR, [table EXCEPT ![cwid] = new.h], new.fs, <<dimid>>)

\* the data id and the file type of a channel code; -1 for a code the
\* switch of cw_def_var has no case for
DataIdOf(code) ==
  IF code \in {CW_CHANNEL_NUMBER_AVHRR1, CW_CHANNEL_NUMBER_AVHRR2,
               CW_CHANNEL_NUMBER_OCEAN_REFLECT, CW_CHANNEL_NUMBER_TURBIDITY}
  THEN [data_id |-> CW_DATA_ID_VISIBLE, file_xtype |-> CW_FLOAT]
  ELSE IF code \in {CW_CHANNEL_NUMBER_AVHRR3, CW_CHANNEL_NUMBER_AVHRR4,
                    CW_CHANNEL_NUMBER_AVHRR5, CW_CHANNEL_NUMBER_MCSST,
                    CW_CHANNEL_NUMBER_MCSST_SPLIT,
                    CW_CHANNEL_NUMBER_MCSST_DUAL,
                    CW_CHANNEL_NUMBER_MCSST_TRIPLE,
                    CW_CHANNEL_NUMBER_CPSST_SPLIT,
                    CW_CHANNEL_NUMBER_CPSST_DUAL,
                    CW_CHANNEL_NUMBER_CPSST_TRIPLE,
                    CW_CHANNEL_NUMBER_NLSST_SPLIT,
                    CW_CHANNEL_NUMBER_NLSST_DUAL,
                    CW_CHANNEL_NUMBER_NLSST_TRIPLE}
  THEN [data_id |-> CW_DATA_ID_IR, file_xtype |-> CW_FLOAT]
  ELSE IF code \in {CW_CHANNEL_NUMBER_SCAN_ANGLE,
                    CW_CHANNEL_NUMBER_SAT_ZENITH,
                    CW_CHANNEL_NUMBER_SOL_ZENITH,
                    CW_CHANNEL_NUMBER_REL_AZIMUTH,
                    CW_CHANNEL_NUMBER_SCAN_TIME}
  THEN [data_id |-> CW_DATA_ID_ANCILLARY, file_xtype |-> CW_FLOAT]
  ELSE IF code = CW_CHANNEL_NUMBER_CLOUD
  THEN [data_id |-> CW_DATA_ID_CLOUD, file_xtype |-> CW_BYTE]
  ELSE [data_id |-> -1, file_xtype |-> -1]

\* the attributes cw_def_var writes for a data id, in order: <<code, offset>>
VarAtts(data_id, code) ==
  << <<data_id, CW_O_DATA_ID>>, <<code, CW_O_CHANNEL_NUMBER>> >> \o
  (IF data_id \in {CW_DATA_ID_VISIBLE, CW_DATA_ID_IR}
   THEN << <<2, CW_O_CHANNEL_PIXEL_SIZE>>,
           <<CW_CALIBRATION_TYPE_ALBEDO_TEMPERATURE, CW_O_CALIBRATION_TYPE>>,
           <<1, CW_O_CHANNELS_PRODUCED>>,
           <<CW_COMPRESSION_TYPE_1B, CW_O_COMPRESSION_TYPE>> >>
   ELSE IF data_id = CW_DATA_ID_ANCILLARY
   THEN << <<2, CW_O_ANCILLARY_PIXEL_SIZE>>,
           <<1, CW_O_ANCILLARIES_PRODUCED>> >>
   ELSE <<>>)

RECURSIVE PutAtts(_, _, _)
\* the attributes atts[k..] written one after the other
PutAtts(f, atts, k) ==
  IF k > Len(atts) THEN f
  ELSE PutAtts(WriteBytes(f, atts[k][2], Bytes16(atts[k][1])), atts, k + 1)

cw_def_var(table, files, cwid, name, xtype, ndims, dimids) ==
  LET h == table[cwid]
      look == cw_lookup_att_code(channel_number, name)
      var == DataIdOf(look.code)
      h1 == [h EXCEPT !.data_id = var.data_id,
                      !.pixel_size =
                        IF var.data_id = CW_DATA_ID_CLOUD THEN 1 ELSE 2]
      new == PutHFile(h1, files,
                      PutAtts(HFile(h, files),
                              VarAtts(var.data_id, look.code), 1))
      fail(rc) == R(rc, table, files, <<>>)
  IN
  IF h = NULL THEN fail(CW_ERR_DATASET_ID)
  ELSE IF ~h.defmode THEN fail(CW_ERR_NOT_DEFINE_MODE)
  ELSE IF ndims # CW_DIM_NUM THEN fail(CW_ERR_DIM_NUM)
  ELSE IF dimids[1] # CW_ROWS \/ dimids[2] # CW_COLUMNS
  THEN fail(CW_ERR_DIM_ID)
  ELSE IF h.dims[CW_ROWS] = -1 \/ h.dims[CW_COLUMNS] = -1
  THEN fail(CW_ERR_DIM_ID)
  ELSE IF name = "graphics"
  THEN IF h.data_id \notin {CW_DATA_ID_VISIBLE, CW_DATA_ID_IR}
       THEN fail(CW_ERR_VAR)
       ELSE IF xtype # CW_BYTE THEN fail(CW_ERR_DATA_TYPE)
       ELSE R(CW_NOERR, [table EXCEPT ![cwid] = [h EXCEPT !.graphics = 1]],
              files, <<CW_GRAPHICS>>)
  ELSE IF h.data_id # -1 THEN fail(CW_ERR_VAR_DEFINED)
  ELSE IF ~look.found THEN fail(CW_ERR_VAR)
  ELSE IF var.data_id = -1 THEN fail(CW_ERR_INTERNAL)
  ELSE IF xtype # var.file_xtype THEN fail(CW_ERR_DATA_TYPE)
  ELSE IF ~Writable(h.fp) THEN fail(CW_ERR_WRITE_ATT)
  ELSE R(CW_NOERR, [table EXCEPT ![cwid] = new.h], new.fs, <<CW_DATA>>)

IsChannel(h) ==
  h.data_id \in {CW_DATA_ID_VISIBLE, CW_DATA_ID_IR} /\ h.pixel_size = 2

\* a variant of DimUndefined that needs both dimensions to be missing
BothDimsUndefined(rows, columns) == rows = -1 /\ columns = -1

\* the dimension check of cw_enddef
DimUndefined(rows, columns) == rows = -1 \/ columns = -1

cw_enddef(table, files, cwid) ==
  LET h == table[cwid]
      rows == h.dims[CW_ROWS]
      columns == h.dims[CW_COLUMNS]
      f0 == HFile(h, files)
      compression == cw_get_att(f0, CW_O_COMPRESSION_TYPE)
      \* a 1B dataset continues on a temporary copy of its file
      h1 == IF IsChannel(h) /\ compression.code = CW_COMPRESSION_TYPE_1B
            THEN [h EXCEPT !.ufp = TRUE, !.fp = TmpStream, !.tmp = f0]
            ELSE h
      headlen == columns * h.pixel_size
      \* zero bytes appended up to headlen, then one zero pixel per cell
      datalen == IF rows > 0 /\ columns > 0
                 THEN rows * columns * h.pixel_size ELSE 0
      f1 == [f0 EXCEPT !.size = Max(f0.size, headlen) + datalen]
      new == PutHFile([h1 EXCEPT !.defmode = FALSE], files, f1)
      fail(rc) == R(rc, table, files, <<>>)
  IN
  IF h = NULL THEN fail(CW_ERR_DATASET_ID)
  ELSE IF ~h.defmode THEN fail(CW_ERR_NOT_DEFINE_MODE)
  ELSE IF DimUndefined(rows, columns) THEN fail(CW_ERR_DIM_UNDEFINED)
  ELSE IF h.data_id = -1 THEN fail(CW_ERR_VAR_UNDEFINED)
  ELSE IF IsChannel(h) /\ compression.rc # 0 THEN fail(CW_ERR_READ_ATT)
  ELSE IF columns < 0
  THEN \* headlen is near 2^64: the fill runs until a write fails
       R(CW_ERR_WRITE_DATA, [table EXCEPT ![cwid] = h1], files, <<>>)
  ELSE R(CW_NOERR, [table EXCEPT ![cwid] = new.h], new.fs, <<>>)

\* a variant of cw_close that compresses every working copy, those of
\* datasets opened read-only included
cw_closeCompressing(table, files, cwid) ==
  LET h == table[cwid]
      e == IF h.defmode THEN cw_enddef(table, files, cwid)
           ELSE R(CW_NOERR, table, files, <<>>)
      h1 == e.cw_files[cwid]
      compression == cw_get_att(HFile(h1, e.fs), CW_O_COMPRESSION_TYPE)
      c == cw_compress(h1, e.fs)
      closed(table1, files1) ==
        R(CW_NOERR, [table1 EXCEPT ![cwid] = NULL], files1, <<>>)
  IN
  IF h = NULL THEN R(CW_ERR_DATASET_ID, table, files, <<>>)
  ELSE IF e.ret # CW_NOERR
  THEN R(CW_ERR_ENDDEF_FAILED, e.cw_files, e.fs, <<>>)
  ELSE IF h1.ufp
  THEN IF compression.rc # 0
       THEN R(CW_ERR_READ_ATT, e.cw_files, e.fs, <<>>)
       ELSE IF compression.code = CW_COMPRESSION_TYPE_1B
       THEN IF c.rc # CW_NOERR
            THEN R(c.rc, [e.cw_files EXCEPT ![cwid] = c.h], c.fs, <<>>)
            ELSE closed(e.cw_files, c.fs)
       ELSE closed(e.cw_files, e.fs)
  ELSE closed(e.cw_files, e.fs)

cw_close(table, files, cwid) ==
  LET h == table[cwid]
      e == IF h.defmode THEN cw_enddef(table, files, cwid)
           ELSE R(CW_NOERR, table, files, <<>>)
      h1 == e.cw_files[cwid]
      compression == cw_get_att(HFile(h1, e.fs), CW_O_COMPRESSION_TYPE)
      c == cw_compress(h1, e.fs)
      closed(table1, files1) ==
        R(CW_NOERR, [table1 EXCEPT ![cwid] = NULL], files1, <<>>)
  IN
  IF h = NULL THEN R(CW_ERR_DATASET_ID, table, files, <<>>)
  ELSE IF e.ret # CW_NOERR
  THEN R(CW_ERR_ENDDEF_FAILED, e.cw_files, e.fs, <<>>)
  ELSE IF h1.ufp /\ h1.wmode = CW_WRITE
  THEN IF compression.rc # 0
       THEN R(CW_ERR_READ_ATT, e.cw_files, e.fs, <<>>)
       ELSE IF compression.code = CW_COMPRESSION_TYPE_1B
       THEN IF c.rc # CW_NOERR
            THEN R(c.rc, [e.cw_files EXCEPT ![cwid] = c.h], c.fs, <<>>)
            ELSE closed(e.cw_files, c.fs)
       ELSE closed(e.cw_files, e.fs)
  ELSE closed(e.cw_files, e.fs)

----------------------------------------------------------------------------
(* Pixel access *)

\* the window test of cw_get_vara and cw_put_vara, in size_t arithmetic
OutOfRange(dims, start, count) ==
  \E i \in 0..1 : \/ UGreater(start[i], dims[i] - 1)
                  \/ UGreater(start[i] + count[i] - 1, dims[i] - 1)

\* malloc of a size_t count of bytes: a request of 2^63 bytes or more fails
MallocFails(n) == n < 0

\* the check of the compression type that both accessors start with:
\* [rc, ub, h], h the handle after a compressed file was expanded
CheckCompression(h, files) ==
  LET compression == cw_get_att(HFile(h, files), CW_O_COMPRESSION_TYPE)
      keep(rc) == [rc |-> rc, ub |-> FALSE, h |-> h]
  IN
  IF h.ufp \/ ~IsChannel(h) THEN keep(CW_NOERR)
  ELSE IF compression.rc # 0 THEN keep(CW_ERR_READ_ATT)
  ELSE IF compression.code \in {CW_COMPRESSION_TYPE_NONE,
                                CW_COMPRESSION_TYPE_FLAT}
  THEN keep(CW_NOERR)
  ELSE IF compression.code = CW_COMPRESSION_TYPE_1B
  THEN cw_uncompress(h, files)
  ELSE keep(CW_ERR_UNSUP_COMPRESSION_TYPE)

\* a variant of GetShift that reads the vertical shift alone
GetShiftVertical(f) ==
  LET v == cw_get_att(f, CW_O_VERTICAL_SHIFT)
  IN [rc |-> IF v.rc # 0 THEN CW_ERR_READ_ATT ELSE CW_NOERR,
      shift |-> Pair(v.code, 0)]

\* the row and column shifts of the header: [rc, shift]
GetShift(f) ==
  LET v == cw_get_att(f, CW_O_VERTICAL_SHIFT)
      hz == cw_get_att(f, CW_O_HORIZONTAL_SHIFT)
  IN [rc |-> IF v.rc # 0 \/ hz.rc # 0 THEN CW_ERR_READ_ATT ELSE CW_NOERR,
      shift |-> Pair(v.code, hz.code)]

\* the graphics nibbles of raw pixels
Graphics(raw) == [k \in 1..Len(raw) |-> CW_UNC_RGRA(raw[k])]

\* cw_get_vara once the handle is checked and its file is expanded: h is the
\* handle, f its file
GetVar(table, files, cwid, h, f, varid, start, count, type) ==
  LET table1 == [table EXCEPT ![cwid] = h]
      dims == h.dims
      len == count[CW_ROWS] * count[CW_COLUMNS]
      sh == GetShift(f)
      calibration == cw_get_att(f, CW_O_CALIBRATION_TYPE)
      compression == cw_get_att(f, CW_O_COMPRESSION_TYPE)
      channel == cw_get_att(f, CW_O_CHANNEL_NUMBER)
      shifted == cw_get_raw(f, h.pixel_size, dims, start, count, sh.shift)
      plain == cw_get_raw(f, h.pixel_size, dims, start, count, NULL)
      dec == IF h.data_id \in {CW_DATA_ID_VISIBLE, CW_DATA_ID_IR}
             THEN cw_decode_channel(shifted.raw, calibration.code,
                                    h.data_id, compression.code,
                                    channel.code)
             ELSE cw_decode_ancillary(shifted.raw, channel.code,
                                      compression.code)
      cloud == cw_cast_frombyte(shifted.raw, type)
      gra == cw_cast_frombyte(Graphics(plain.raw), type)
      done(rc, o) == R(rc, table1, files, o)
  IN
  IF varid = CW_DATA
  THEN IF sh.rc # CW_NOERR THEN done(sh.rc, <<>>)
       ELSE IF MallocFails(len * h.pixel_size) THEN done(CW_ERR_NOMEM, <<>>)
       ELSE IF shifted.rc # CW_NOERR THEN done(shifted.rc, <<>>)
       ELSE IF h.data_id \in {CW_DATA_ID_VISIBLE, CW_DATA_ID_IR}
       THEN IF type # CW_FLOAT THEN done(CW_ERR_VAR_VALUE, <<>>)
            ELSE IF calibration.rc # 0 \/ compression.rc # 0
                      \/ channel.rc # 0
            THEN done(CW_ERR_READ_ATT, <<>>)
            ELSE done(dec.rc, dec.data)
       ELSE IF h.data_id = CW_DATA_ID_ANCILLARY
       THEN IF type # CW_FLOAT THEN done(CW_ERR_VAR_VALUE, <<>>)
            ELSE IF channel.rc # 0 \/ compression.rc # 0
            THEN done(CW_ERR_READ_ATT, <<>>)
            ELSE done(dec.rc, dec.data)
       ELSE IF h.data_id = CW_DATA_ID_CLOUD
       THEN done(cloud.rc, cloud.data)
       ELSE done(CW_ERR_UNSUP_DATA_ID, <<>>)
  ELSE IF varid = CW_GRAPHICS
  THEN IF h.graphics = -1 THEN done(CW_ERR_VAR_ID, <<>>)
       ELSE IF h.data_id \in {CW_DATA_ID_VISIBLE, CW_DATA_ID_IR}
       THEN IF MallocFails(len * h.pixel_size) \/ MallocFails(len)
            THEN done(CW_ERR_NOMEM, <<>>)
            ELSE IF plain.rc # CW_NOERR THEN done(plain.rc, <<>>)
            ELSE done(gra.rc, gra.data)
       ELSE done(CW_ERR_VAR_ID, <<>>)
  ELSE done(CW_ERR_VAR_ID, <<>>)

cw_get_vara(table, files, cwid, varid, start, count, type) ==
  LET h0 == table[cwid]
      chk == CheckCompression(h0, files)
  IN
  IF h0 = NULL THEN R(CW_ERR_DATASET_ID, table, files, <<>>)
  ELSE IF h0.defmode THEN R(CW_ERR_DEFINE_MODE, table, files, <<>>)
  ELSE IF OutOfRange(h0.dims, start, count)
  THEN R(CW_ERR_VAR_INDEX, table, files, <<>>)
  ELSE IF chk.ub THEN [R(CW_NOERR, table, files, <<>>) EXCEPT !.ub = TRUE]
  ELSE IF chk.rc # CW_NOERR THEN R(chk.rc, table, files, <<>>)
  ELSE GetVar(table, files, cwid, chk.h, HFile(chk.h, files), varid, start,
              count, type)

\* cw_put_vara once the handle is checked and its file is expanded: h is the
\* handle, f its file
PutVar(table, files, cwid, h, f, varid, start, count, data, type) ==
  LET table1 == [table EXCEPT ![cwid] = h]
      dims == h.dims
      len == count[CW_ROWS] * count[CW_COLUMNS]
      sh == GetShift(f)
      calibration == cw_get_att(f, CW_O_CALIBRATION_TYPE)
      channel == cw_get_att(f, CW_O_CHANNEL_NUMBER)
      fltp == cw_cast_tofloat(data, type)
      old == cw_get_raw(f, h.pixel_size, dims, start, count, NULL)
      chan == cw_encode_channel(fltp.fp, Graphics(old.raw),
                                calibration.code, h.data_id)
      anc == cw_encode_ancillary(data, channel.code)
      gra == [k \in 1..Len(old.raw) |->
                CW_UNC_W(CW_UNC_RVAL(old.raw[k]), data[k])]
      done(rc) == R(rc, table1, files, <<>>)
      \* the final cw_put_raw of the encoded pixels
      put(raw) ==
        LET w == cw_put_raw(h.fp, f, raw, h.pixel_size, dims, start, count)
            new == PutHFile(h, files, w.file)
        IN IF w.rc = CW_NOERR /\ \E k \in 1..Len(raw) : raw[k] = Undefined
           THEN [done(CW_NOERR) EXCEPT !.ub = TRUE]
           ELSE R(w.rc, [table EXCEPT ![cwid] = new.h], new.fs, <<>>)
  IN
  IF sh.rc # CW_NOERR THEN done(sh.rc)
  ELSE IF sh.shift[CW_ROWS] # 0 \/ sh.shift[CW_COLUMNS] # 0
  THEN done(CW_ERR_WRITE_SHIFT)
  ELSE IF varid = CW_DATA
  THEN IF MallocFails(len * h.pixel_size) THEN done(CW_ERR_NOMEM)
       ELSE IF h.data_id \in {CW_DATA_ID_VISIBLE, CW_DATA_ID_IR}
       THEN IF fltp.rc # CW_NOERR THEN done(fltp.rc)
            ELSE IF calibration.rc # 0 THEN done(CW_ERR_READ_ATT)
            ELSE IF old.rc # CW_NOERR THEN done(old.rc)
            ELSE put(chan.raw)
       ELSE IF h.data_id = CW_DATA_ID_ANCILLARY
       THEN IF fltp.rc # CW_NOERR THEN done(fltp.rc)
            ELSE IF channel.rc # 0 THEN done(CW_ERR_READ_ATT)
            ELSE IF type # CW_FLOAT
            THEN \* the bytes are encoded as if they were floats: the
                 \* pixels are arbitrary, the channel and the stream
                 \* decide the result
                 LET rc == cw_encode_ancillary(<<>>, channel.code).rc
                 IN IF rc # CW_NOERR THEN done(rc)
                    ELSE IF len > 0 /\ ~Writable(h.fp)
                    THEN done(CW_ERR_WRITE_DATA)
                    ELSE [done(CW_NOERR) EXCEPT !.ub = TRUE]
            ELSE IF anc.rc # CW_NOERR THEN done(anc.rc)
            ELSE put(anc.raw)
       ELSE IF h.data_id = CW_DATA_ID_CLOUD
       THEN IF type # CW_BYTE THEN done(CW_ERR_VAR_VALUE)
            ELSE put(data)
       ELSE done(CW_ERR_UNSUP_DATA_ID)
  ELSE IF varid = CW_GRAPHICS
  THEN IF type # CW_BYTE THEN done(CW_ERR_VAR_VALUE)
       ELSE IF h.graphics = -1 THEN done(CW_ERR_VAR_ID)
       ELSE IF h.data_id \in {CW_DATA_ID_VISIBLE, CW_DATA_ID_IR}
       THEN IF MallocFails(len * h.pixel_size) \/ MallocFails(len * 2)
            THEN done(CW_ERR_NOMEM)
            ELSE IF old.rc # CW_NOERR THEN done(old.rc)
            ELSE put(gra)
       ELSE done(CW_ERR_VAR_ID)
  ELSE done(CW_ERR_VAR_ID)

cw_put_vara(table, files, cwid, varid, start, count, data, type) ==
  LET h0 == table[cwid]
      chk == CheckCompression(h0, files)
  IN
  IF h0 = NULL THEN R(CW_ERR_DATASET_ID, table, files, <<>>)
  ELSE IF h0.defmode THEN R(CW_ERR_DEFINE_MODE, table, files, <<>>)
  ELSE IF OutOfRange(h0.dims, start, count)
  THEN R(CW_ERR_VAR_INDEX, table, files, <<>>)
  ELSE IF chk.ub THEN [R(CW_NOERR, table, files, <<>>) EXCEPT !.ub = TRUE]
  ELSE IF chk.rc # CW_NOERR THEN R(chk.rc, table, files, <<>>)
  ELSE PutVar(table, files, cwid, chk.h, HFile(chk.h, files), varid, start,
              count, data, type)

----------------------------------------------------------------------------
(* Attribute functions *)

\* cw_lookup_attid: rc 0 and the id of the first entry of that name, or -1
cw_lookup_attid(name) ==
  LET hits == {i \in 0..(CW_ATT_NUM - 1) :
                 cw_attributes[i + 1].att_name = name}
  IN IF hits = {} THEN [rc |-> -1, attid |-> -1]
     ELSE [rc |-> 0, attid |-> CHOOSE i \in hits : \A m \in hits : i <= m]

\* a variant of cw_lookup_att_code_name in which a code that is not in the
\* table gets the first name of the table
LookupCodeNameOrFirst(table, att_code) ==
  LET hits == {i \in 1..Len(table) : table[i][2] = att_code}
  IN [rc |-> 0,
      name |-> table[IF hits = {} THEN 1
                     ELSE CHOOSE i \in hits : \A m \in hits : i <= m][1]]

\* cw_lookup_att_code_name over a code table: the first name of a code
cw_lookup_att_code_name(table, att_code) ==
  LET hits == {i \in 1..Len(table) : table[i][2] = att_code}
  IN IF hits = {} THEN [rc |-> -1, name |-> ""]
     ELSE [rc |-> 0,
           name |-> table[CHOOSE i \in hits : \A m \in hits : i <= m][1]]

\* the checks every attribute call makes after the dataset id (and, in a
\* put, the file mode): the variable id, the variable, the attribute name
AttCheck(h, varid, name) ==
  IF varid = CW_GRAPHICS THEN CW_ERR_ATT
  ELSE IF varid # CW_DATA THEN CW_ERR_VAR_ID
  ELSE IF h.data_id = -1 THEN CW_ERR_VAR_ID
  ELSE IF cw_lookup_attid(name).rc # 0 THEN CW_ERR_ATT
  ELSE CW_NOERR

\* a variant of AttReadOnly in which the mode of an attribute is not looked at
AttNeverReadOnly(att) == att.att_mode = CW_ATT_RO /\ att.att_mode = CW_ATT_RW

\* the mode check of the attribute puts
AttReadOnly(att) == att.att_mode = CW_ATT_RO

\* the final cw_put_att of an attribute put
PutAttCode(table, files, cwid, att_code, att_offset) ==
  LET h == table[cwid]
      put == cw_put_att(h.fp, HFile(h, files), att_code, att_offset)
      new == PutHFile(h, files, put.file)
  IN IF put.rc # 0 THEN R(CW_ERR_WRITE_ATT, table, files, <<>>)
     ELSE R(CW_NOERR, [table EXCEPT ![cwid] = new.h], new.fs, <<>>)

cw_put_att_text(table, files, cwid, varid, name, len, tp) ==
  LET h == table[cwid]
      att == cw_attributes[cw_lookup_attid(name).attid + 1]
      look == cw_lookup_att_code(att.att_code, tp)
      fail(rc) == R(rc, table, files, <<>>)
  IN
  IF h = NULL THEN fail(CW_ERR_DATASET_ID)
  ELSE IF h.wmode = CW_NOWRITE THEN fail(CW_ERR_DATASET_RO)
  ELSE IF AttCheck(h, varid, name) # CW_NOERR
  THEN fail(AttCheck(h, varid, name))
  ELSE IF AttReadOnly(att) THEN fail(CW_ERR_ATT_RO)
  ELSE IF att.att_type # CW_CHAR THEN fail(CW_ERR_ATT_TYPE)
  ELSE IF ~look.found THEN fail(CW_ERR_ATT_VALUE)
  ELSE PutAttCode(table, files, cwid, look.code, att.att_offset)

cw_put_att_short(table, files, cwid, varid, name, xtype, len, sp) ==
  LET h == table[cwid]
      att == cw_attributes[cw_lookup_attid(name).attid + 1]
      fail(rc) == R(rc, table, files, <<>>)
  IN
  IF h = NULL THEN fail(CW_ERR_DATASET_ID)
  ELSE IF len # 1 THEN fail(CW_ERR_ATT_LEN)
  ELSE IF h.wmode = CW_NOWRITE THEN fail(CW_ERR_DATASET_RO)
  ELSE IF AttCheck(h, varid, name) # CW_NOERR
  THEN fail(AttCheck(h, varid, name))
  ELSE IF AttReadOnly(att) THEN fail(CW_ERR_ATT_RO)
  ELSE IF att.att_type # xtype THEN fail(CW_ERR_ATT_TYPE)
  ELSE IF att.att_type = CW_SHORT
  THEN PutAttCode(table, files, cwid, sp, att.att_offset)
  ELSE IF att.att_type = CW_FLOAT
  THEN PutAttCode(table, files, cwid, ToShort(sp * att.att_scale),
                  att.att_offset)
  ELSE IF att.att_type = CW_CHAR THEN fail(CW_ERR_ATT_TYPE)
  ELSE fail(CW_ERR_INTERNAL)

\* fp is a float <<num, den>>; its scaled value is rounded and converted to
\* short, which is undefined when a short cannot hold it
cw_put_att_float(table, files, cwid, varid, name, xtype, len, fp) ==
  LET h == table[cwid]
      att == cw_attributes[cw_lookup_attid(name).attid + 1]
      att_code == ShortOf(roundf(<<fp[1] * att.att_scale, fp[2]>>))
      fail(rc) == R(rc, table, files, <<>>)
  IN
  IF h = NULL THEN fail(CW_ERR_DATASET_ID)
  ELSE IF len # 1 THEN fail(CW_ERR_ATT_LEN)
  ELSE IF h.wmode = CW_NOWRITE THEN fail(CW_ERR_DATASET_RO)
  ELSE IF AttCheck(h, varid, name) # CW_NOERR
  THEN fail(AttCheck(h, varid, name))
  ELSE IF AttReadOnly(att) THEN fail(CW_ERR_ATT_RO)
  ELSE IF att.att_type # xtype THEN fail(CW_ERR_ATT_TYPE)
  ELSE IF att.att_type = CW_SHORT THEN fail(CW_ERR_ATT_TYPE)
  ELSE IF att.att_type = CW_FLOAT
  THEN IF att_code = Undefined
       THEN [fail(CW_NOERR) EXCEPT !.ub = TRUE]
       ELSE PutAttCode(table, files, cwid, att_code, att.att_offset)
  ELSE IF att.att_type = CW_CHAR THEN fail(CW_ERR_ATT_TYPE)
  ELSE fail(CW_ERR_INTERNAL)

cw_get_att_text(table, files, cwid, varid, name) ==
  LET h == table[cwid]
      att == cw_attributes[cw_lookup_attid(name).attid + 1]
      get == cw_get_att(HFile(h, files), att.att_offset)
      look == cw_lookup_att_code_name(att.att_code, get.code)
      fail(rc) == R(rc, table, files, <<>>)
  IN
  IF h = NULL THEN fail(CW_ERR_DATASET_ID)
  ELSE IF AttCheck(h, varid, name) # CW_NOERR
  THEN fail(AttCheck(h, varid, name))
  ELSE IF att.att_type # CW_CHAR THEN fail(CW_ERR_ATT_TYPE)
  ELSE IF get.rc # 0 THEN fail(CW_ERR_READ_ATT)
  ELSE IF look.rc # 0 THEN fail(CW_ERR_ATT_VALUE)
  ELSE R(CW_NOERR, table, files, <<look.name>>)

cw_get_att_short(table, files, cwid, varid, name) ==
  LET h == table[cwid]
      att == cw_attributes[cw_lookup_attid(name).attid + 1]
      get == cw_get_att(HFile(h, files), att.att_offset)
      fail(rc) == R(rc, table, files, <<>>)
  IN
  IF h = NULL THEN fail(CW_ERR_DATASET_ID)
  ELSE IF AttCheck(h, varid, name) # CW_NOERR
  THEN fail(AttCheck(h, varid, name))
  ELSE IF get.rc # 0 THEN fail(CW_ERR_READ_ATT)
  ELSE IF att.att_type = CW_SHORT
  THEN R(CW_NOERR, table, files, <<get.code>>)
  ELSE IF att.att_type \in {CW_FLOAT, CW_CHAR} THEN fail(CW_ERR_ATT_TYPE)
  ELSE fail(CW_ERR_INTERNAL)

\* the float handed back is the exact quotient <<code, scale>>
cw_get_att_float(table, files, cwid, varid, name) ==
  LET h == table[cwid]
      att == cw_attributes[cw_lookup_attid(name).attid + 1]
      get == cw_get_att(HFile(h, files), att.att_offset)
      fail(rc) == R(rc, table, files, <<>>)
  IN
  IF h = NULL THEN fail(CW_ERR_DATASET_ID)
  ELSE IF AttCheck(h, varid, name) # CW_NOERR
  THEN fail(AttCheck(h, varid, name))
  ELSE IF get.rc # 0 THEN fail(CW_ERR_READ_ATT)
  ELSE IF att.att_type = CW_SHORT
  THEN R(CW_NOERR, table, files, << <<get.code, 1>> >>)
  ELSE IF att.att_type = CW_FLOAT
  THEN R(CW_NOERR, table, files, << <<get.code, att.att_scale>> >>)
  ELSE IF att.att_type = CW_CHAR THEN fail(CW_ERR_ATT_TYPE)
  ELSE fail(CW_ERR_INTERNAL)

----------------------------------------------------------------------------
(* The API calls as actions.  Each records the call in op, its return code *)
(* in ret and its pointer results in out.                                   *)

\* the return codes seen when a call runs into undefined behaviour
UndefinedRets == {CW_NOERR, CW_ERR_READ_DATA, CW_ERR_WRITE_DATA}

Call(name, cwid, args, r) ==
  /\ cw_files' = r.cw_files
  /\ fs' = r.fs
  /\ out' = r.out
  /\ ret' \in (IF r.ub THEN UndefinedRets ELSE {r.ret})
  /\ op' = [name |-> name, cwid |-> cwid, args |-> args]
  /\ UNCHANGED proj

OpenCount == Cardinality({id \in Slots : cw_files[id] # NULL})

CreateA(paths, modes) ==
  \E path \in paths, cmode \in modes, past \in BOOLEAN :
    Call("cw_create", -1, [path |-> path, mode |-> cmode],
         cw_create(cw_files, fs, path, cmode, past))

OpenA(paths, modes) ==
  \E path \in paths, omode \in modes, past \in BOOLEAN :
    Call("cw_open", -1, [path |-> path, mode |-> omode],
         cw_open(cw_files, fs, path, omode, past))

\* dimcalls: a set of <<name, len>>
DefDimA(cwids, dimcalls) ==
  \E cwid \in cwids, d \in dimcalls :
    Call("cw_def_dim", cwid, [name |-> d[1], len |-> d[2]],
         cw_def_dim(cw_files, fs, cwid, d[1], d[2]))

\* varcalls: a set of [name, xtype, ndims, dimids]
DefVarA(cwids, varcalls) ==
  \E cwid \in cwids, v \in varcalls :
    Call("cw_def_var", cwid, v,
         cw_def_var(cw_files, fs, cwid, v.name, v.xtype, v.ndims, v.dimids))

EndDefA(cwids) ==
  \E cwid \in cwids :
    Call("cw_enddef", cwid, <<>>, cw_enddef(cw_files, fs, cwid))

CloseA(cwids) ==
  \E cwid \in cwids :
    Call("cw_close", cwid, <<>>, cw_close(cw_files, fs, cwid))

\* gets: a set of [varid, start, count, type]; cw_get_vara_float and
\* cw_get_vara_uchar are the calls with type CW_FLOAT and CW_BYTE
GetVaraA(cwids, gets) ==
  \E cwid \in cwids, g \in gets :
    Call("cw_get_vara", cwid, g,
         cw_get_vara(cw_files, fs, cwid, g.varid, g.start, g.count, g.type))

\* puts: a set of [varid, start, count, type, data]
PutVaraA(cwids, puts) ==
  \E cwid \in cwids, g \in puts :
    Call("cw_put_vara", cwid, g,
         cw_put_vara(cw_files, fs, cwid, g.varid, g.start, g.count, g.data,
                     g.type))

\* calls: a set of [varid, name, len, tp]
PutAttTextA(cwids, calls) ==
  \E cwid \in cwids, c \in calls :
    Call("cw_put_att_text", cwid, c,
         cw_put_att_text(cw_files, fs, cwid, c.varid, c.name, c.len, c.tp))

\* calls: a set of [varid, name, xtype, len, sp]
PutAttShortA(cwids, calls) ==
  \E cwid \in cwids, c \in calls :
    Call("cw_put_att_short", cwid, c,
         cw_put_att_short(cw_files, fs, cwid, c.varid, c.name, c.xtype,
                          c.len, c.sp))

\* calls: a set of [varid, name, xtype, len, fp]
PutAttFloatA(cwids, calls) ==
  \E cwid \in cwids, c \in calls :
    Call("cw_put_att_float", cwid, c,
         cw_put_att_float(cw_files, fs, cwid, c.varid, c.name, c.xtype,
                          c.len, c.fp))

\* calls: a set of [varid, name]
GetAttTextA(cwids, calls) ==
  \E cwid \in cwids, c \in calls :
    Call("cw_get_att_text", cwid, c,
         cw_get_att_text(cw_files, fs, cwid, c.varid, c.name))

GetAttShortA(cwids, calls) ==
  \E cwid \in cwids, c \in calls :
    Call("cw_get_att_short", cwid, c,
         cw_get_att_short(cw_files, fs, cwid, c.varid, c.name))

GetAttFloatA(cwids, calls) ==
  \E cwid \in cwids, c \in calls :
    Call("cw_get_att_float", cwid, c,
         cw_get_att_float(cw_files, fs, cwid, c.varid, c.name))

----------------------------------------------------------------------------
(* Specification Spec: the dataset lifecycle *)

MaxOpen == 1
MaxCwid == 1
Paths == {"a.cwf"}
Cwids == 0..MaxCwid
Modes == {0, 1, 2}

\* the channel names of the code table
ChannelNames == {channel_number[i][1] : i \in 1..Len(channel_number)}

DimCalls ==
  {<<"rows", 2>>, <<"rows", 65535>>, <<"columns", 68>>,
   <<"columns", 65535>>, <<"depth", 2>>}

VarCall(name, xtype, ndims, dimids) ==
  [name |-> name, xtype |-> xtype, ndims |-> ndims, dimids |-> dimids]

\* a call that defines the channel of a name with its matching type
ChannelCall(n) ==
  VarCall(n, IF n = "cloud" THEN CW_BYTE ELSE CW_FLOAT, 2,
          <<CW_ROWS, CW_COLUMNS>>)

\* calls with a wrong type, a wrong dimension list, an unknown name, and the
\* graphics variable
BadVarCalls ==
  {VarCall("avhrr_ch1", CW_BYTE, 2, <<CW_ROWS, CW_COLUMNS>>),
   VarCall("cloud", CW_FLOAT, 2, <<CW_ROWS, CW_COLUMNS>>),
   VarCall("avhrr_ch1", CW_FLOAT, 1, <<CW_ROWS, CW_COLUMNS>>),
   VarCall("avhrr_ch1", CW_FLOAT, 2, <<CW_COLUMNS, CW_ROWS>>),
   VarCall("no_such_channel", CW_FLOAT, 2, <<CW_ROWS, CW_COLUMNS>>),
   VarCall("graphics", CW_BYTE, 2, <<CW_ROWS, CW_COLUMNS>>),
   VarCall("graphics", CW_FLOAT, 2, <<CW_ROWS, CW_COLUMNS>>)}

\* the lifecycle uses a visible, an infrared, a byte and an ancillary channel
VarCalls ==
  {ChannelCall(n) : n \in {"avhrr_ch1", "avhrr_ch4", "cloud", "sat_zenith"}}
  \cup BadVarCalls

\* every channel name of the code table with its matching type
AllVarCalls == {ChannelCall(n) : n \in ChannelNames} \cup BadVarCalls

Window(varid, start, count, type) ==
  [varid |-> varid, start |-> start, count |-> count, type |-> type]

Gets ==
  {Window(CW_DATA, Pair(0, 0), Pair(1, 1), CW_FLOAT),
   Window(CW_DATA, Pair(0, 0), Pair(1, 1), CW_BYTE),
   Window(CW_GRAPHICS, Pair(0, 0), Pair(1, 1), CW_BYTE)}

PutOf(w, data) ==
  [varid |-> w.varid, start |-> w.start, count |-> w.count,
   type |-> w.type, data |-> data]

\* cw_put_vara_float calls and cw_put_vara_uchar calls
FloatPuts ==
  {PutOf(Window(CW_DATA, Pair(0, 0), Pair(1, 1), CW_FLOAT), << <<25, 1>> >>)}

BytePuts ==
  {PutOf(Window(CW_DATA, Pair(0, 0), Pair(1, 1), CW_BYTE), <<3>>),
   PutOf(Window(CW_GRAPHICS, Pair(0, 0), Pair(1, 1), CW_BYTE), <<5>>)}

NoCall == [name |-> "none", cwid |-> -1, args |-> <<>>]

Init ==
  /\ cw_files = [id \in Slots |-> NULL]
  /\ fs = [p \in Paths |-> NoFile]
  /\ op = NoCall
  /\ ret = CW_NOERR
  /\ out = <<>>
  /\ proj = NoProjection

Create == OpenCount < MaxOpen /\ CreateA(Paths, Modes)
Open == OpenCount < MaxOpen /\ OpenA(Paths, Modes)
DefDim == DefDimA(Cwids, DimCalls)
DefVar == DefVarA(Cwids, VarCalls)
EndDef == EndDefA(Cwids)
Close == CloseA(Cwids)
GetVara == GetVaraA(Cwids, Gets)
PutVaraFloat == PutVaraA(Cwids, FloatPuts)
PutVaraUchar == PutVaraA(Cwids, BytePuts)

Next ==
  \/ Create \/ Open \/ DefDim \/ DefVar \/ EndDef \/ Close
  \/ GetVara \/ PutVaraFloat \/ PutVaraUchar

Spec == Init /\ [][Next]_vars

----------------------------------------------------------------------------
(* Properties of the lifecycle.  A step of the model is one API call: op'   *)
(* is the call, ret' and out' are its results, and the unprimed variables   *)
(* are the state the call was made in.                                      *)

DefineCalls == {"cw_def_dim", "cw_def_var", "cw_enddef"}
PixelCalls == {"cw_get_vara", "cw_put_vara"}

\* the handle a call is made on
Target(call) == cw_files[call.cwid]

DimsDefined(h) == h.dims[CW_ROWS] # -1 /\ h.dims[CW_COLUMNS] # -1

C2_Step ==
  /\ (op'.name \in DefineCalls /\ ret' = CW_NOERR)
       => (Target(op') # NULL /\ Target(op').defmode)
  /\ (op'.name \in DefineCalls /\ Target(op') # NULL /\ ~Target(op').defmode)
       => ret' = CW_ERR_NOT_DEFINE_MODE
  /\ (op'.name \in PixelCalls /\ Target(op') # NULL /\ Target(op').defmode)
       => /\ ret' = CW_ERR_DEFINE_MODE
          /\ out' = <<>>
          /\ fs' = fs
          /\ cw_files' = cw_files
  /\ (op'.name = "cw_open" /\ ret' = CW_NOERR)
       => /\ cw_files[out'[1]] = NULL
          /\ cw_files'[out'[1]] # NULL
          /\ ~cw_files'[out'[1]].defmode
  /\ \A id \in Slots :
       (cw_files[id] # NULL /\ ~cw_files[id].defmode /\ cw_files'[id] # NULL)
         => ~cw_files'[id].defmode

\* C2: every handle goes from define mode to ready to closed.  cw_def_dim,
\* cw_def_var and cw_enddef succeed only on a handle in define mode and
\* return CW_ERR_NOT_DEFINE_MODE on a handle that is not; a pixel get or put
\* on a handle in define mode returns CW_ERR_DEFINE_MODE, returns no data and
\* changes neither the files nor the table; the handle that a successful
\* cw_open allocates is not in define mode; and no call puts a handle that
\* has left define mode back into it.
C2_Lifecycle == [][C2_Step]_vars

\* a definition call was refused on a handle that had left define mode
C2_Witness ==
  /\ op.name \in DefineCalls
  /\ ret = CW_ERR_NOT_DEFINE_MODE
  /\ Target(op) # NULL
  /\ ~Target(op).defmode

C3_Step ==
  (op'.name = "cw_enddef" /\ Target(op') # NULL /\ Target(op').defmode)
    => /\ ret' = CW_NOERR
            => (DimsDefined(Target(op')) /\ Target(op').data_id # -1)
       /\ ~DimsDefined(Target(op'))
            => /\ ret' = CW_ERR_DIM_UNDEFINED
               /\ cw_files' = cw_files
               /\ fs' = fs
       /\ (DimsDefined(Target(op')) /\ Target(op').data_id = -1)
            => /\ ret' = CW_ERR_VAR_UNDEFINED
               /\ cw_files' = cw_files
               /\ fs' = fs

\* C3: cw_enddef on a handle in define mode succeeds only if rows, columns
\* and the data variable are defined.  With a dimension missing it returns
\* CW_ERR_DIM_UNDEFINED; with the dimensions defined and the variable missing
\* it returns CW_ERR_VAR_UNDEFINED; in both cases the table (the handle, its
\* define mode and its streams) and the files are unchanged.
C3_EnddefNeedsDefinitions == [][C3_Step]_vars

\* cw_enddef was refused on a handle with rows defined and columns missing
C3_Witness ==
  /\ op.name = "cw_enddef"
  /\ ret = CW_ERR_DIM_UNDEFINED
  /\ Target(op) # NULL
  /\ Target(op).defmode
  /\ Target(op).dims[CW_ROWS] # -1
  /\ Target(op).dims[CW_COLUMNS] = -1

\* a well-formed definition of the data variable under a channel name
ChannelDefinition(call) ==
  /\ call.name = "cw_def_var"
  /\ call.args.name \in ChannelNames
  /\ call.args.ndims = CW_DIM_NUM
  /\ call.args.dimids = <<CW_ROWS, CW_COLUMNS>>

C4_Step ==
  /\ ( /\ op.name = "cw_def_dim" /\ ret = CW_NOERR
       /\ op'.name = "cw_def_dim" /\ op'.cwid = op.cwid
       /\ op'.args.name = op.args.name )
       => /\ ret' = CW_ERR_DIM_DEFINED
          /\ cw_files' = cw_files
          /\ fs' = fs
  /\ ( /\ ChannelDefinition(op) /\ ret = CW_NOERR
       /\ ChannelDefinition(op') /\ op'.cwid = op.cwid )
       => /\ ret' = CW_ERR_VAR_DEFINED
          /\ cw_files' = cw_files
          /\ fs' = fs

\* C4: a dimension and the data variable are declared at most once.  The
\* cw_def_dim that follows a successful cw_def_dim of the same name on the
\* same dataset returns CW_ERR_DIM_DEFINED and changes neither the handle nor
\* the header; the cw_def_var of a channel name that follows a successful one
\* returns CW_ERR_VAR_DEFINED and changes neither.
C4_DeclaredOnce == [][C4_Step]_vars

\* the external type that matches a channel name
MatchingType(name) == IF name = "cloud" THEN CW_BYTE ELSE CW_FLOAT

\* what a successful definition of the data variable leaves behind
Recorded(h, f) ==
  /\ h.data_id \in {CW_DATA_ID_VISIBLE, CW_DATA_ID_IR, CW_DATA_ID_ANCILLARY,
                    CW_DATA_ID_CLOUD}
  /\ h.pixel_size = (IF h.data_id = CW_DATA_ID_CLOUD THEN 1 ELSE 2)
  /\ h.data_id \in {CW_DATA_ID_VISIBLE, CW_DATA_ID_IR}
       => /\ cw_get_att(f, CW_O_COMPRESSION_TYPE).code
               = CW_COMPRESSION_TYPE_1B
          /\ cw_get_att(f, CW_O_CALIBRATION_TYPE).code
               = CW_CALIBRATION_TYPE_ALBEDO_TEMPERATURE

C5_Step ==
  ( /\ op'.name = "cw_def_var"
    /\ op'.args.ndims = CW_DIM_NUM
    /\ op'.args.dimids = <<CW_ROWS, CW_COLUMNS>>
    /\ Target(op') # NULL /\ Target(op').defmode
    /\ DimsDefined(Target(op')) /\ Target(op').data_id = -1 )
    => /\ ( /\ op'.args.name \in ChannelNames
            /\ op'.args.xtype = MatchingType(op'.args.name) )
            => /\ ret' = CW_NOERR
               /\ Recorded(cw_files'[op'.cwid],
                           HFile(cw_files'[op'.cwid], fs'))
       /\ op'.args.name \notin ChannelNames
            => /\ ret' # CW_NOERR
               /\ cw_files'[op'.cwid].data_id = -1

\* C5: on a dataset in define mode with rows and columns defined and no data
\* variable, cw_def_var of every name of the channel_number table with the
\* matching type (byte for cloud, float otherwise) succeeds and records one
\* data class with its pixel size (1 for cloud, 2 otherwise) and, for a
\* visible or infrared channel, compression type 1B and calibration type
\* albedo_temperature in the header; a name outside the table fails and
\* defines no variable.
C5_EveryChannelName == [][C5_Step]_vars

C6_Step ==
  (op'.name = "cw_close" /\ Target(op') # NULL)
    => cw_files'[op'.cwid] = NULL

\* C6: cw_close on an open handle, whatever its lifecycle state, frees the
\* registry slot of the handle.
C6_CloseFreesSlot == [][C6_Step]_vars

----------------------------------------------------------------------------
(* Specification SpecVar: the definition of the data variable under every   *)
(* name of the channel table                                                *)

DefVarAll == DefVarA(Cwids, AllVarCalls)

NextVar == Create \/ DefDim \/ DefVarAll

SpecVar == Init /\ [][NextVar]_vars

----------------------------------------------------------------------------
(* Specification SpecPixel: pixel access on a visible dataset that was      *)
(* created, defined and taken through cw_enddef                             *)

GridRows == 2
NarrowColumns == 20
WideColumns == 68

\* a narrow grid (a row shorter than the minimal header), a wide grid and a
\* grid with no rows
Grids ==
  {<<GridRows, NarrowColumns>>, <<GridRows, WideColumns>>,
   <<0, NarrowColumns>>}

\* the result of cw_create, cw_def_dim of rows and of columns, cw_def_var of
\* the channel name and cw_enddef on an empty registry and file system
Defined(rows, columns, name) ==
  LET s0 == cw_create([id \in Slots |-> NULL], [p \in Paths |-> NoFile],
                      "a.cwf", CW_CLOBBER, TRUE)
      s1 == cw_def_dim(s0.cw_files, s0.fs, 0, "rows", rows)
      s2 == cw_def_dim(s1.cw_files, s1.fs, 0, "columns", columns)
      s3 == cw_def_var(s2.cw_files, s2.fs, 0, name, ChannelCall(name).xtype,
                       CW_DIM_NUM, <<CW_ROWS, CW_COLUMNS>>)
  IN cw_enddef(s3.cw_files, s3.fs, 0)

InitPixel ==
  \E g \in Grids :
    /\ cw_files = Defined(g[1], g[2], "avhrr_ch1").cw_files
    /\ fs = Defined(g[1], g[2], "avhrr_ch1").fs
    /\ op = [name |-> "cw_enddef", cwid |-> 0, args |-> <<>>]
    /\ ret = Defined(g[1], g[2], "avhrr_ch1").ret
    /\ out = <<>>
    /\ proj = NoProjection

\* albedo values as fractions: 0, 25 and 100 percent
Albedos == {<<0, 1>>, <<25, 1>>, <<100, 1>>}

\* one-pixel windows at the grid origin, at row 1 column 2 and at the end of
\* row 0 of the narrow grid; the first row of the narrow grid; a window one
\* row taller than the grids; and a window whose column count is SIZE_MAX
CellWindows ==
  {Window(CW_DATA, Pair(0, 0), Pair(1, 1), CW_FLOAT),
   Window(CW_DATA, Pair(1, 2), Pair(1, 1), CW_FLOAT),
   Window(CW_DATA, Pair(0, NarrowColumns - 1), Pair(1, 1), CW_FLOAT)}

RowWindow == Window(CW_DATA, Pair(0, 0), Pair(1, NarrowColumns), CW_FLOAT)

TallWindow == Window(CW_DATA, Pair(0, 0), Pair(GridRows + 1, 1), CW_FLOAT)

WrapWindow == Window(CW_DATA, Pair(0, 2), Pair(1, -1), CW_FLOAT)

PixelGets == CellWindows \cup {RowWindow, TallWindow, WrapWindow}

\* the buffer of a put holds one value for each pixel of its window; no
\* buffer has the SIZE_MAX values of the wrapping window, whose put is
\* refused before the buffer is read
PixelPuts ==
  {PutOf(w, <<a>>) : w \in CellWindows \cup {WrapWindow}, a \in Albedos}
  \cup {PutOf(RowWindow, [k \in 1..NarrowColumns |-> <<25, 1>>]),
        PutOf(TallWindow, [k \in 1..(GridRows + 1) |-> <<25, 1>>])}

PutPixels == PutVaraA({0}, PixelPuts)
GetPixels == GetVaraA({0}, PixelGets)
ClosePixels == CloseA({0})

NextPixel == PutPixels \/ GetPixels \/ ClosePixels

SpecPixel == InitPixel /\ [][NextPixel]_vars

----------------------------------------------------------------------------
(* Properties of pixel access *)

\* a dataset out of define mode that holds a visible channel on a grid of at
\* least one row and one column
VisibleGrid(h) ==
  /\ h # NULL
  /\ ~h.defmode
  /\ h.data_id = CW_DATA_ID_VISIBLE
  /\ h.dims[CW_ROWS] >= 1
  /\ h.dims[CW_COLUMNS] >= 1

\* the window [start, start + count) lies in the grid; a negative number
\* stands for a size_t value near 2^64
Contained(dims, start, count) ==
  \A i \in {CW_ROWS, CW_COLUMNS} :
    /\ start[i] >= 0
    /\ count[i] >= 0
    /\ dims[i] >= 0
    /\ start[i] + count[i] <= dims[i]

\* a float access to the data variable
FloatAccess(call, name) ==
  /\ call.name = name
  /\ call.args.varid = CW_DATA
  /\ call.args.type = CW_FLOAT

\* an albedo between 0 and 100
IsAlbedo(f) == f[1] >= 0 /\ f[1] <= 100 * f[2]

\* two values differ by at most one quantization step, 1/20.47
WithinStep(a, b) == 2047 * Abs(a[1] * b[2] - b[1] * a[2]) <= 100 * a[2] * b[2]

\* a put of albedos into a window inside the grid of the handle h
AlbedoPut(call, h) ==
  /\ FloatAccess(call, "cw_put_vara")
  /\ VisibleGrid(h)
  /\ Contained(h.dims, call.args.start, call.args.count)
  /\ call.args.count[CW_ROWS] >= 1
  /\ call.args.count[CW_COLUMNS] >= 1
  /\ \A k \in DOMAIN call.args.data : IsAlbedo(call.args.data[k])

C1_Step ==
  /\ AlbedoPut(op', Target(op')) => ret' = CW_NOERR
  /\ ( /\ AlbedoPut(op, Target(op))
       /\ FloatAccess(op', "cw_get_vara")
       /\ op'.cwid = op.cwid
       /\ op'.args.start = op.args.start
       /\ op'.args.count = op.args.count )
       => /\ ret' = CW_NOERR
          /\ Len(out') = Len(op.args.data)
          /\ \A k \in DOMAIN out' : WithinStep(out'[k], op.args.data[k])

\* C1: on a visible dataset taken through cw_enddef with at least one row
\* and one column, a float put of albedos between 0 and 100 into a window
\* inside the grid succeeds, and the float get of the same window that
\* follows it on the same handle succeeds and returns, for each pixel, a
\* value within 1/20.47 of the value that was put.
C1_PutThenGet == [][C1_Step]_vars

\* the least a 1B file of a grid holds: the 1024-byte header, one byte of
\* the channel stream for each pixel and one pair of the graphics stream for
\* each row
Layout1B(f, rows, columns) ==
  /\ f # NoFile
  /\ f.size >= CW_HEAD_COMP + rows * columns + 2 * rows

C7_Step ==
  ( /\ op'.name = "cw_close"
    /\ Target(op') # NULL
    /\ ~Target(op').defmode
    /\ Target(op').ufp
    /\ IsChannel(Target(op'))
    /\ ret' = CW_NOERR )
    => Layout1B(fs'[Target(op').path], Target(op').dims[CW_ROWS],
                Target(op').dims[CW_COLUMNS])

\* C7: when a visible or infrared dataset holds an uncompressed working
\* copy, a successful cw_close leaves at the path of the dataset a file in
\* the 1B layout: a header of 1024 bytes, then the channel stream and the
\* graphics stream of the whole grid.
C7_CloseCompresses == [][C7_Step]_vars

C9_Step ==
  ( /\ op'.name \in PixelCalls
    /\ Target(op') # NULL
    /\ ~Target(op').defmode
    /\ ~Contained(Target(op').dims, op'.args.start, op'.args.count) )
    => /\ ret' = CW_ERR_VAR_INDEX
       /\ out' = <<>>
       /\ fs' = fs
       /\ cw_files' = cw_files

\* C9: on a dataset out of define mode, a pixel get or put whose window is
\* not contained in the grid returns CW_ERR_VAR_INDEX, returns no data and
\* changes no file; this for every start and count, a sum that wraps around
\* and a grid with a dimension of length zero included.
C9_WindowOutOfRange == [][C9_Step]_vars

----------------------------------------------------------------------------
(* Specification SpecRaw: the raw read with a navigational shift, on byte   *)
(* datasets whose pixels were put through the API                           *)

SmallRows == 3
SmallColumns == 4
TallRows == 32767

\* a small grid whose pixels are 1, 2, ... in row-major order
SmallGrid ==
  LET s == Defined(SmallRows, SmallColumns, "cloud")
  IN cw_put_vara(s.cw_files, s.fs, 0, CW_DATA, Pair(0, 0),
                 Pair(SmallRows, SmallColumns),
                 [k \in 1..(SmallRows * SmallColumns) |-> k], CW_BYTE)

\* a grid of one column and the most rows a short can count, its last
\* pixel set
TallGrid ==
  LET s == Defined(TallRows, 1, "cloud")
  IN cw_put_vara(s.cw_files, s.fs, 0, CW_DATA, Pair(TallRows - 1, 0),
                 Pair(1, 1), <<7>>, CW_BYTE)

InitRaw ==
  \E g \in {SmallGrid, TallGrid} :
    /\ g.ret = CW_NOERR
    /\ cw_files = g.cw_files
    /\ fs = g.fs
    /\ op = NoCall
    /\ ret = CW_NOERR
    /\ out = <<>>
    /\ proj = NoProjection

RawWindows ==
  {[start |-> Pair(0, 0), count |-> Pair(1, 1)],
   [start |-> Pair(0, 0), count |-> Pair(3, 1)],
   [start |-> Pair(1, 1), count |-> Pair(2, 2)],
   [start |-> Pair(2, 3), count |-> Pair(1, 1)],
   [start |-> Pair(0, 0), count |-> Pair(SmallRows, SmallColumns)],
   [start |-> Pair(TallRows - 3, 0), count |-> Pair(3, 1)]}

RowShifts == {-TallRows, 1 - TallRows, -2, -1, 0, 1, 2, TallRows}
ColumnShifts == {-2, -1, 0, 1, 5}

\* cw_get_raw of a window inside the grid of dataset 0 with a shift
GetRaw ==
  \E w \in RawWindows, sr \in RowShifts, sc \in ColumnShifts :
    LET h == cw_files[0]
        r == cw_get_raw(HFile(h, fs), h.pixel_size, h.dims, w.start,
                        w.count, Pair(sr, sc))
    IN /\ \A i \in 0..1 : w.start[i] + w.count[i] <= h.dims[i]
       /\ op' = [name |-> "cw_get_raw", cwid |-> 0,
                 args |-> [start |-> w.start, count |-> w.count,
                           shift |-> Pair(sr, sc)]]
       /\ ret' = r.rc
       /\ out' = r.raw
       /\ UNCHANGED <<cw_files, fs, proj>>

NextRaw == GetRaw

SpecRaw == InitRaw /\ [][NextRaw]_vars

\* the stored pixel at (row, col) of the grid of handle h, 0 outside it
StoredAt(h, f, row, col) ==
  IF /\ row >= 0 /\ row < h.dims[CW_ROWS]
     /\ col >= 0 /\ col < h.dims[CW_COLUMNS]
  THEN PixelAt(f, h.pixel_size,
               (h.dims[CW_COLUMNS] + row * h.dims[CW_COLUMNS] + col)
                 * h.pixel_size)
  ELSE 0

\* C10: for a window inside the grid and a pair of shifts, the raw read
\* returns CW_NOERR and element (r, c) of its output is the stored pixel at
\* (start_row + r - shiftRow, start_col + c - shiftCol) if that position is
\* inside the grid and 0 if not.
C10_ShiftedRead ==
  op.name = "cw_get_raw"
    => /\ ret = CW_NOERR
       /\ Len(out) = op.args.count[CW_ROWS] * op.args.count[CW_COLUMNS]
       /\ \A k \in DOMAIN out :
            out[k] = StoredAt(cw_files[0], HFile(cw_files[0], fs),
                       op.args.start[CW_ROWS]
                         + ((k - 1) \div op.args.count[CW_COLUMNS])
                         - op.args.shift[CW_ROWS],
                       op.args.start[CW_COLUMNS]
                         + ((k - 1) % op.args.count[CW_COLUMNS])
                         - op.args.shift[CW_COLUMNS])

----------------------------------------------------------------------------
(* Specification SpecReg: the registry near its capacity                    *)

FreeAtStart == 2

\* a byte dataset created, defined, written and closed, and the handle that
\* cw_open gives for its file; the handle is the same in every slot
ClosedFile ==
  LET s == Defined(GridRows, WideColumns, "cloud")
  IN cw_close(s.cw_files, s.fs, 0)

OpenedOnce == cw_open(ClosedFile.cw_files, ClosedFile.fs, "a.cwf",
                      CW_NOWRITE, TRUE)

\* the state after CW_MAX_FILES - FreeAtStart calls of cw_open
InitReg ==
  /\ ClosedFile.ret = CW_NOERR
  /\ OpenedOnce.ret = CW_NOERR
  /\ cw_files = [id \in Slots |->
                   IF id < CW_MAX_FILES - FreeAtStart
                   THEN OpenedOnce.cw_files[0] ELSE NULL]
  /\ fs = OpenedOnce.fs
  /\ op = [name |-> "cw_open", cwid |-> -1,
           args |-> [path |-> "a.cwf", mode |-> CW_NOWRITE]]
  /\ ret = CW_NOERR
  /\ out = <<CW_MAX_FILES - FreeAtStart - 1>>
  /\ proj = NoProjection

CreateReg == CreateA(Paths, Modes)
OpenReg == OpenA(Paths, Modes)
CloseReg == CloseA({0, CW_MAX_FILES - 2, CW_MAX_FILES - 1})

NextReg == CreateReg \/ OpenReg \/ CloseReg

SpecReg == InitReg /\ [][NextReg]_vars

Full(table) == \A id \in Slots : table[id] # NULL

C8_Step ==
  /\ Cardinality({id \in Slots : cw_files'[id] # NULL}) <= CW_MAX_FILES
  /\ ( /\ op'.name \in {"cw_create", "cw_open"}
       /\ op'.args.mode \in {0, 1}
       /\ Full(cw_files) )
       => /\ ret' = CW_ERR_MAX_FILES
          /\ cw_files' = cw_files
          /\ fs' = fs
  /\ (op'.name = "cw_close" /\ Target(op') # NULL) => ~Full(cw_files')

\* C8: at most CW_MAX_FILES datasets are open; a cw_create or cw_open with
\* a valid mode made while every slot is taken returns CW_ERR_MAX_FILES and
\* changes neither the registry nor a file; and after a cw_close of an open
\* dataset a slot is free.
C8_Capacity == [][C8_Step]_vars

----------------------------------------------------------------------------
(* Specification SpecShift: pixel puts on datasets whose navigational       *)
(* shifts are set through cw_put_att_short                                  *)

\* the state after cw_close of a defined dataset and cw_open of its file
Reopened(rows, columns, name, omode) ==
  LET d == Defined(rows, columns, name)
      c == cw_close(d.cw_files, d.fs, 0)
  IN cw_open(c.cw_files, c.fs, "a.cwf", omode, TRUE)

\* a visible dataset on its working copy, on the wide and on the narrow
\* grid; a byte and an ancillary dataset; a 1B file opened for writing
ShiftDatasets ==
  {Defined(GridRows, WideColumns, "avhrr_ch1"),
   Defined(GridRows, NarrowColumns, "avhrr_ch1"),
   Defined(GridRows, WideColumns, "cloud"),
   Defined(GridRows, WideColumns, "sat_zenith"),
   Reopened(GridRows, WideColumns, "avhrr_ch1", CW_WRITE)}

InitShift ==
  \E d \in ShiftDatasets :
    /\ cw_files = d.cw_files
    /\ fs = d.fs
    /\ op = NoCall
    /\ ret = d.ret
    /\ out = <<>>
    /\ proj = NoProjection

ShortAtt(name, sp) ==
  [varid |-> CW_DATA, name |-> name, xtype |-> CW_SHORT, len |-> 1,
   sp |-> sp]

ShiftCalls ==
  {ShortAtt(n, sp) : n \in {"horizontal_shift", "vertical_shift"},
                     sp \in {0, 1}}

\* cw_put_vara_float calls: puts to the data variable inside the grid, and
\* one a row taller than the grid
ShiftFloatPuts ==
  {PutOf(Window(CW_DATA, Pair(0, 0), Pair(1, 1), CW_FLOAT), << <<25, 1>> >>),
   PutOf(Window(CW_DATA, Pair(1, 2), Pair(1, 1), CW_FLOAT), << <<25, 1>> >>),
   PutOf(Window(CW_DATA, Pair(0, NarrowColumns - 1), Pair(1, 1), CW_FLOAT),
         << <<25, 1>> >>),
   PutOf(TallWindow, [k \in 1..(GridRows + 1) |-> <<25, 1>>])}

\* cw_put_vara_uchar calls: puts to the data and to the graphics variable
ShiftBytePuts ==
  {PutOf(Window(CW_DATA, Pair(0, 0), Pair(1, 1), CW_BYTE), <<3>>),
   PutOf(Window(CW_GRAPHICS, Pair(0, 0), Pair(1, 1), CW_BYTE), <<5>>)}

PutShift == PutAttShortA({0}, ShiftCalls)
PutShiftedFloat == PutVaraA({0}, ShiftFloatPuts)
PutShiftedUchar == PutVaraA({0}, ShiftBytePuts)

NextShift == PutShift \/ PutShiftedFloat \/ PutShiftedUchar

SpecShift == InitShift /\ [][NextShift]_vars

\* the header f holds both shift attributes and one of them is not zero
ShiftSet(f) ==
  /\ CanRead(f, CW_O_HORIZONTAL_SHIFT, 2)
  /\ CanRead(f, CW_O_VERTICAL_SHIFT, 2)
  /\ \/ Word16(f, CW_O_HORIZONTAL_SHIFT) # 0
     \/ Word16(f, CW_O_VERTICAL_SHIFT) # 0

\* a put that passes the checks made before the shifts are read: the mode,
\* the window and the compression type
ReachesShiftCheck(call, h) ==
  /\ ~h.defmode
  /\ ~OutOfRange(h.dims, call.args.start, call.args.count)
  /\ ~CheckCompression(h, fs).ub
  /\ CheckCompression(h, fs).rc = CW_NOERR

C11_Step ==
  ( /\ op'.name = "cw_put_vara"
    /\ Target(op') # NULL
    /\ ShiftSet(HFile(Target(op'), fs)) )
    => /\ ReachesShiftCheck(op', Target(op')) => ret' = CW_ERR_WRITE_SHIFT
       /\ ret' # CW_NOERR
       /\ fs' = fs
       /\ cw_files'[op'.cwid] \in
            {Target(op'), CheckCompression(Target(op'), fs).h}

----------------------------------------------------------------------------
(* Specification SpecRO: pixel access on datasets opened with CW_NOWRITE    *)

\* the file of a defined dataset stored without compression: the layout of
\* its working copy with compression_type none
PlainFile(rows, columns, name) ==
  LET d == Defined(rows, columns, name)
  IN WriteBytes(HFile(d.cw_files[0], d.fs), CW_O_COMPRESSION_TYPE,
                Bytes16(CW_COMPRESSION_TYPE_NONE))

\* cw_open of that file on an empty registry
OpenedPlain(rows, columns, name, omode) ==
  cw_open([id \in Slots |-> NULL],
          [p \in Paths |-> PlainFile(rows, columns, name)], "a.cwf", omode,
          TRUE)

\* a visible and an infrared 1B file, a byte file, an ancillary file and an
\* uncompressed visible file, each opened read-only
ReadOnlyDatasets ==
  {Reopened(GridRows, WideColumns, n, CW_NOWRITE) :
     n \in {"avhrr_ch1", "avhrr_ch4", "cloud", "sat_zenith"}}
  \cup {OpenedPlain(GridRows, WideColumns, "avhrr_ch1", CW_NOWRITE)}

InitRO ==
  \E d \in ReadOnlyDatasets :
    /\ cw_files = d.cw_files
    /\ fs = d.fs
    /\ op = NoCall
    /\ ret = d.ret
    /\ out = <<>>
    /\ proj = NoProjection

ReadOnlyFloatPuts ==
  {PutOf(Window(CW_DATA, Pair(0, 0), Pair(1, 1), CW_FLOAT), << <<v, 1>> >>) :
     v \in {0, 25}}
  \cup {PutOf(Window(CW_DATA, Pair(1, 2), Pair(1, 1), CW_FLOAT),
              << <<25, 1>> >>)}

ReadOnlyBytePuts ==
  {PutOf(Window(CW_DATA, Pair(0, 0), Pair(1, 1), CW_BYTE), <<3>>),
   PutOf(Window(CW_GRAPHICS, Pair(0, 0), Pair(1, 1), CW_BYTE), <<5>>),
   PutOf(Window(CW_GRAPHICS, Pair(1, 2), Pair(1, 1), CW_BYTE), <<5>>)}

PutReadOnlyFloat == PutVaraA({0}, ReadOnlyFloatPuts)
PutReadOnlyUchar == PutVaraA({0}, ReadOnlyBytePuts)
GetReadOnly == GetVaraA({0}, Gets)

NextRO == PutReadOnlyFloat \/ PutReadOnlyUchar \/ GetReadOnly

SpecRO == InitRO /\ [][NextRO]_vars

C12_Step ==
  ( /\ op'.name = "cw_put_vara"
    /\ Target(op') # NULL
    /\ Target(op').wmode = CW_NOWRITE )
    => ret' # CW_NOERR

\* C12: a pixel put (float or byte, data or graphics variable) on a dataset
\* opened with CW_NOWRITE returns an error code, whatever the data class and
\* whether the file is uncompressed or 1B-compressed.
C12_ReadOnlyPutFails == [][C12_Step]_vars

----------------------------------------------------------------------------
(* Specification SpecAttMode: attribute puts and the two write permissions *)

\* a dataset in data mode open for writing, the same dataset closed and
\* opened again read-only or read-write, and a flat file opened read-only
AttModeDatasets ==
  {Defined(GridRows, WideColumns, "avhrr_ch1"),
   Reopened(GridRows, WideColumns, "avhrr_ch1", CW_NOWRITE),
   Reopened(GridRows, WideColumns, "avhrr_ch1", CW_WRITE),
   OpenedPlain(GridRows, WideColumns, "avhrr_ch1", CW_NOWRITE)}

InitAttMode ==
  \E d \in AttModeDatasets :
    /\ cw_files = d.cw_files
    /\ fs = d.fs
    /\ op = NoCall
    /\ ret = d.ret
    /\ out = <<>>
    /\ proj = NoProjection

\* the names of the attributes whose att_mode is CW_ATT_RO
ReadOnlyNames ==
  {"calibration_type", "channel_number", "data_id", "channels_produced",
   "channel_pixel_size", "ancillaries_produced", "ancillary_pixel_size",
   "compression_type"}

TextAtt(varid, name, tp) ==
  [varid |-> varid, name |-> name, len |-> Len(tp), tp |-> tp]

\* cw_put_att_text calls: every read-only attribute, a read-write one, a call
\* on the graphics variable
AttModeTextCalls ==
  {TextAtt(CW_DATA, n, "none") : n \in ReadOnlyNames}
  \cup {TextAtt(CW_DATA, "composite_type", tp) : tp \in {"none", "average"}}
  \cup {TextAtt(CW_GRAPHICS, "channel_number", "none")}

\* cw_put_att_short calls: every read-only attribute, a read-write one, two
\* values instead of one, a call on the graphics variable
AttModeShortCalls ==
  {ShortAtt(n, 1) : n \in ReadOnlyNames \cup {"orbit_start_day"}}
  \cup {[ShortAtt(n, 1) EXCEPT !.len = 2] :
          n \in {"channel_number", "orbit_start_day"}}
  \cup {[ShortAtt("data_id", 1) EXCEPT !.varid = CW_GRAPHICS]}

FloatAtt(name, fp) ==
  [varid |-> CW_DATA, name |-> name, xtype |-> CW_FLOAT, len |-> 1, fp |-> fp]

\* cw_put_att_float calls: every read-only attribute, a read-write one, two
\* values instead of one
AttModeFloatCalls ==
  {FloatAtt(n, <<1, 1>>) : n \in ReadOnlyNames \cup {"start_latitude"}}
  \cup {[FloatAtt("compression_type", <<1, 1>>) EXCEPT !.len = 2]}

AttModeGets ==
  {[varid |-> CW_DATA, name |-> n] :
     n \in {"composite_type", "channel_number"}}

PutTextMode == PutAttTextA({0}, AttModeTextCalls)
PutShortMode == PutAttShortA({0}, AttModeShortCalls)
PutFloatMode == PutAttFloatA({0}, AttModeFloatCalls)
GetTextMode == GetAttTextA({0}, AttModeGets)

NextAttMode == PutTextMode \/ PutShortMode \/ PutFloatMode \/ GetTextMode

SpecAttMode == InitAttMode /\ [][NextAttMode]_vars

AttPutNames == {"cw_put_att_text", "cw_put_att_short", "cw_put_att_float"}

\* the call is on the data variable of a dataset that has one, and a numeric
\* put passes one value
OneValueOfData(call, h) ==
  /\ call.args.varid = CW_DATA
  /\ h.data_id # -1
  /\ call.name # "cw_put_att_text" => call.args.len = 1

C13_Step ==
  ( /\ op'.name \in AttPutNames
    /\ Target(op') # NULL )
    => /\ ( /\ OneValueOfData(op', Target(op'))
            /\ Target(op').wmode = CW_NOWRITE )
            => ret' = CW_ERR_DATASET_RO
       /\ ( /\ OneValueOfData(op', Target(op'))
            /\ Target(op').wmode # CW_NOWRITE
            /\ op'.args.name \in ReadOnlyNames )
            => ret' = CW_ERR_ATT_RO
       /\ ( \/ Target(op').wmode = CW_NOWRITE
            \/ op'.args.name \in ReadOnlyNames )
            => /\ ret' # CW_NOERR
               /\ fs' = fs
               /\ cw_files' = cw_files

----------------------------------------------------------------------------
(* Specification SpecAttText: the enumerated attributes written and read *)
(* as text                                                               *)

\* the greatest number of enumerated attributes a behaviour sets to a
\* non-zero code
MaxSet == 1

AttTextDatasets ==
  {Defined(GridRows, WideColumns, "avhrr_ch1"),
   Reopened(GridRows, WideColumns, "avhrr_ch1", CW_WRITE)}

InitAttText ==
  \E d \in AttTextDatasets :
    /\ cw_files = d.cw_files
    /\ fs = d.fs
    /\ op = NoCall
    /\ ret = d.ret
    /\ out = <<>>
    /\ proj = NoProjection

\* the schema entry of an attribute name
AttOf(name) ==
  cw_attributes[CHOOSE i \in 1..CW_ATT_NUM :
                  cw_attributes[i].att_name = name]

\* the read-write attributes of type CW_CHAR
EnumNames ==
  {cw_attributes[i].att_name :
     i \in {k \in 1..CW_ATT_NUM :
              /\ cw_attributes[k].att_type = CW_CHAR
              /\ cw_attributes[k].att_mode = CW_ATT_RW}}

\* the value names of a code table
CodeNames(table) == {table[i][1] : i \in 1..Len(table)}

\* cw_put_att_text calls: every enumerated attribute with every name of its
\* table, a name of no table and a name of another table
AttTextCalls ==
  {TextAtt(CW_DATA, n, tp) :
     n \in EnumNames,
     tp \in UNION {CodeNames(AttOf(m).att_code) : m \in EnumNames}
              \cup {"no_such_value", "1b"}}

AttTextGets == {[varid |-> CW_DATA, name |-> n] : n \in EnumNames}

\* the enumerated attributes that hold a non-zero code
SetAttributes(f) ==
  {n \in EnumNames : Word16(f, AttOf(n).att_offset) # 0}

PutTextEnum ==
  \E c \in AttTextCalls :
    /\ \/ c.tp \in CodeNames(AttOf(c.name).att_code)
       \/ c.tp \in {"no_such_value", "1b", "both", "yes"}
    /\ Cardinality(SetAttributes(HFile(cw_files[0], fs)) \cup {c.name})
         <= MaxSet
    /\ PutAttTextA({0}, {c})

GetTextEnum == GetAttTextA({0}, AttTextGets)

NextAttText == PutTextEnum \/ GetTextEnum

SpecAttText == InitAttText /\ [][NextAttText]_vars

\* the call names an enumerated attribute of the data variable of a dataset
\* that has one
OnEnumAttribute(call, h) ==
  /\ h # NULL
  /\ call.args.varid = CW_DATA
  /\ h.data_id # -1
  /\ call.args.name \in EnumNames

C14_PutStep ==
  ( /\ op'.name = "cw_put_att_text"
    /\ OnEnumAttribute(op', Target(op'))
    /\ Target(op').wmode # CW_NOWRITE )
    => LET att == AttOf(op'.args.name)
           table == att.att_code
           hits == {i \in 1..Len(table) : table[i][1] = op'.args.tp}
           before == HFile(Target(op'), fs)
           after == HFile(cw_files'[op'.cwid], fs')
       IN IF hits # {}
          THEN /\ ret' = CW_NOERR
               /\ \E i \in hits :
                    after = WriteBytes(before, att.att_offset,
                                       Bytes16(table[i][2]))
               /\ LET get == cw_get_att_text(cw_files', fs', op'.cwid,
                                             CW_DATA, op'.args.name)
                  IN get.ret = CW_NOERR /\ get.out = <<op'.args.tp>>
          ELSE /\ ret' = CW_ERR_ATT_VALUE
               /\ fs' = fs
               /\ cw_files' = cw_files

C14_GetStep ==
  ( /\ op'.name = "cw_get_att_text"
    /\ OnEnumAttribute(op', Target(op')) )
    => LET att == AttOf(op'.args.name)
           table == att.att_code
           stored == ToShort(Word16(HFile(Target(op'), fs), att.att_offset))
           hits == {i \in 1..Len(table) : table[i][2] = stored}
       IN IF hits # {}
          THEN ret' = CW_NOERR /\ \E i \in hits : out' = <<table[i][1]>>
          ELSE ret' = CW_ERR_ATT_VALUE /\ out' = <<>>

\* C14: for every read-write attribute of type CW_CHAR and every value name
\* of its code table, cw_put_att_text on a writable dataset returns CW_NOERR
\* and writes the code of that name, and nothing else, at the offset of the
\* attribute (composite_type "average" has the code 2), and cw_get_att_text
\* then returns the same name; a value name that is not in the table is
\* rejected with CW_ERR_ATT_VALUE and no file changes; cw_get_att_text of a
\* stored code that is not in the table returns CW_ERR_ATT_VALUE and no name.
C14_TextAttributeRoundTrip ==
  /\ \E i \in 1..Len(composite_type) :
       composite_type[i] = <<"average", 2>>
  /\ [][C14_PutStep /\ C14_GetStep]_vars

C14_Witness ==
  /\ op.name = "cw_get_att_text"
  /\ op.args.name = "satellite_id"
  /\ ret = CW_NOERR
  /\ out = <<"noaa-17">>

----------------------------------------------------------------------------
(* Specification SpecCodec: pixel codes decoded and encoded                 *)
(*                                                                          *)
(* The values are exact rationals.  The float rounding error of a decoded   *)
(* value is far below half a code step, so the code an encoder rounds to    *)
(* is the one computed here.                                                *)

\* the codes an 11-bit channel field holds
ChannelCodes == 0..2047

\* words of an ancillary pixel: every scan time, the ends and the middle of
\* the 16-bit range, and one word in 251 of the rest
AncillaryCodes ==
  (0..2500) \cup (32700..32800) \cup (65400..65535)
    \cup {251 * k : k \in 0..261}

CodecCalibrations ==
  {CW_CALIBRATION_TYPE_RAW, CW_CALIBRATION_TYPE_ALBEDO_TEMPERATURE}

CodecDataIds == {CW_DATA_ID_VISIBLE, CW_DATA_ID_IR}

CodecChannels == {CW_CHANNEL_NUMBER_SAT_ZENITH, CW_CHANNEL_NUMBER_SCAN_TIME}

\* floats handed to cw_encode_channel: in and out of the physical ranges
ChannelValues ==
  {CW_BADVAL, <<-1, 1>>, <<-4, 10>>, <<0, 1>>, <<25, 1>>, <<9997, 100>>,
   <<100, 1>>, <<101, 1>>, <<1023, 1>>, <<10234, 10>>, <<1024, 1>>,
   <<3300, 1>>, <<40000, 1>>, <<65536, 1>>, <<-96, 1>>, <<6945, 100>>,
   <<70, 1>>}

\* floats handed to cw_encode_ancillary
AncillaryValues ==
  {CW_BADVAL, <<-1, 1>>, <<0, 1>>, <<25, 2>>, <<2399, 100>>, <<24, 1>>,
   <<25, 1>>, <<65534, 128>>, <<512, 1>>, <<600, 1>>}

\* the codes an encoder can leave after an undefined conversion
UndefinedCodes == {0, 1}

InitCodec ==
  /\ cw_files = [id \in Slots |-> NULL]
  /\ fs = [p \in Paths |-> NoFile]
  /\ op = NoCall
  /\ ret = CW_NOERR
  /\ out = <<>>
  /\ proj = NoProjection

\* cw_decode_channel of one pixel of a file that is not flat, as the first
\* call
DecodeChannel ==
  /\ op = NoCall
  /\ \E calibration \in CodecCalibrations, id \in CodecDataIds,
        code \in ChannelCodes :
       LET usp == <<CW_UNC_W(code, 0)>>
           r == cw_decode_channel(usp, calibration, id, CW_COMPRESSION_TYPE_1B,
                                  CW_CHANNEL_NUMBER_AVHRR4)
       IN /\ op' = [name |-> "cw_decode_channel", cwid |-> -1,
                    args |-> [data |-> usp, calibration |-> calibration,
                              id |-> id]]
          /\ ret' = r.rc
          /\ out' = r.data
          /\ UNCHANGED <<cw_files, fs, proj>>

\* cw_encode_channel of one float: as the first call any of ChannelValues,
\* after a decode the value just decoded, with the calibration it was
\* decoded with
EncodeChannel ==
  \E c \in (IF op = NoCall
            THEN {[fp |-> f, calibration |-> calibration, id |-> id] :
                    f \in ChannelValues, calibration \in CodecCalibrations,
                    id \in CodecDataIds}
            ELSE {})
           \cup (IF op.name = "cw_decode_channel"
                 THEN {[fp |-> out[1], calibration |-> op.args.calibration,
                        id |-> op.args.id]}
                 ELSE {}) :
    LET r == cw_encode_channel(<<c.fp>>, <<0>>, c.calibration, c.id)
    IN /\ op' = [name |-> "cw_encode_channel", cwid |-> -1,
                 args |-> [data |-> <<c.fp>>, calibration |-> c.calibration,
                           id |-> c.id]]
       /\ ret' = r.rc
       /\ out' \in (IF r.raw[1] = Undefined
                    THEN {<<CW_UNC_W(u, 0)>> : u \in UndefinedCodes}
                    ELSE {r.raw})
       /\ UNCHANGED <<cw_files, fs, proj>>

\* cw_decode_ancillary of one pixel of a file that is not flat, as the
\* first call
DecodeAncillary ==
  /\ op = NoCall
  /\ \E channel \in CodecChannels, code \in AncillaryCodes :
       LET r == cw_decode_ancillary(<<code>>, channel, CW_COMPRESSION_TYPE_1B)
       IN /\ op' = [name |-> "cw_decode_ancillary", cwid |-> -1,
                    args |-> [data |-> <<code>>, channel |-> channel]]
          /\ ret' = r.rc
          /\ out' = r.data
          /\ UNCHANGED <<cw_files, fs, proj>>

\* cw_encode_ancillary of one float: as the first call any of
\* AncillaryValues, after a decode the value just decoded, for the same
\* channel
EncodeAncillary ==
  \E c \in (IF op = NoCall
            THEN {[fp |-> f, channel |-> channel] :
                    f \in AncillaryValues, channel \in CodecChannels}
            ELSE {})
           \cup (IF op.name = "cw_decode_ancillary"
                 THEN {[fp |-> out[1], channel |-> op.args.channel]}
                 ELSE {}) :
    LET r == cw_encode_ancillary(<<c.fp>>, c.channel)
    IN /\ op' = [name |-> "cw_encode_ancillary", cwid |-> -1,
                 args |-> [data |-> <<c.fp>>, channel |-> c.channel]]
       /\ ret' = r.rc
       /\ out' \in (IF r.raw[1] = Undefined
                    THEN {<<u>> : u \in UndefinedCodes}
                    ELSE {r.raw})
       /\ UNCHANGED <<cw_files, fs, proj>>

NextCodec ==
  DecodeChannel \/ EncodeChannel \/ DecodeAncillary \/ EncodeAncillary

SpecCodec == InitCodec /\ [][NextCodec]_vars

\* the valid codes of a channel path
ValidChannelCodes(calibration) ==
  IF calibration = CW_CALIBRATION_TYPE_RAW THEN 1..1024 ELSE 1..2047

\* the encode call takes the value the decode call before it returned, on
\* the same path
EncodesDecoded(dec, enc) ==
  /\ op.name = dec
  /\ op'.name = enc
  /\ op'.args.data = out
  /\ \A k \in (DOMAIN op.args) \ {"data"} : op'.args[k] = op.args[k]

C15_ChannelStep ==
  /\ op'.name = "cw_decode_channel"
       => (IsBad(out'[1]) <=>
             CW_UNC_RVAL(op'.args.data[1])
               \notin ValidChannelCodes(op'.args.calibration))
  /\ EncodesDecoded("cw_decode_channel", "cw_encode_channel")
       => out' = IF IsBad(out[1]) THEN <<0>> ELSE op.args.data

C15_AngleStep ==
  /\ ( /\ op'.name = "cw_decode_ancillary"
       /\ IsAngle(op'.args.channel) )
       => (IsBad(out'[1]) <=> op'.args.data[1] \notin 1..65535)
  /\ ( /\ EncodesDecoded("cw_decode_ancillary", "cw_encode_ancillary")
       /\ IsAngle(op.args.channel) )
       => out' = IF IsBad(out[1]) THEN <<0>> ELSE op.args.data

\* C15: in a file that is not flat, the raw codes 1..1024, the albedo codes
\* 1..2047, the temperature codes 1..2047 and the angle codes 1..65535
\* decode to a value other than the bad value, and encoding the decoded
\* value on the same path gives the code back; every other code decodes to
\* the bad value -999, and encoding that gives the code 0.
C15_DecodeEncode == [][C15_ChannelStep /\ C15_AngleStep]_vars

C15_Witness ==
  /\ op.name = "cw_encode_channel"
  /\ op.args.calibration = CW_CALIBRATION_TYPE_ALBEDO_TEMPERATURE
  /\ op.args.id = CW_DATA_ID_VISIBLE
  /\ op.args.data = << <<2046 * 100, 2047>> >>
  /\ out = <<CW_UNC_W(2047, 0)>>

\* the scan time words HHMM of the hours 0..23 and the minutes 0..59
ScanTimes == {100 * hh + mm : hh \in 0..23, mm \in 0..59}

C16_Step ==
  /\ ( /\ op'.name = "cw_decode_ancillary"
       /\ op'.args.channel = CW_CHANNEL_NUMBER_SCAN_TIME
       /\ op'.args.data[1] \in ScanTimes )
       => RatEq(out'[1], <<(op'.args.data[1] \div 100) * 60
                             + (op'.args.data[1] % 100), 60>>)
  /\ ( /\ EncodesDecoded("cw_decode_ancillary", "cw_encode_ancillary")
       /\ op.args.channel = CW_CHANNEL_NUMBER_SCAN_TIME
       /\ op.args.data[1] \in ScanTimes )
       => out' = op.args.data

\* C16: a scan time word HHMM with 0 <= HH <= 23 and 0 <= MM <= 59 decodes
\* to HH + MM/60 hours, and encoding the decoded value gives HHMM back.
C16_ScanTime == [][C16_Step]_vars

\* the physical range of an encode path
RatLeq(a, b) == ~RatLess(b, a)
InPhysicalRange(call) ==
  LET f == call.args.data[1]
  IN IF call.name = "cw_encode_channel"
     THEN IF call.args.calibration = CW_CALIBRATION_TYPE_RAW
          THEN RatLeq(<<0, 1>>, f) /\ RatLeq(f, <<1023, 1>>)
          ELSE IF call.args.id = CW_DATA_ID_VISIBLE
          THEN RatLeq(<<0, 1>>, f) /\ RatLeq(f, <<100, 1>>)
          ELSE RatLeq(KTOC178, f)
                 /\ RatLeq(f, cw_cal_ir(2047, CW_COMPRESSION_TYPE_1B,
                                        CW_CHANNEL_NUMBER_AVHRR4))
     ELSE IF IsAngle(call.args.channel)
          THEN RatLeq(<<0, 1>>, f) /\ RatLeq(f, <<65534, 128>>)
          ELSE RatLeq(<<0, 1>>, f) /\ RatLess(f, <<24, 1>>)

\* the code stored by an encode call, and the valid codes of its path
StoredCode(call, data) ==
  IF call.name = "cw_encode_channel" THEN CW_UNC_RVAL(data[1]) ELSE data[1]

ValidCodes(call) ==
  IF call.name = "cw_encode_channel"
  THEN ValidChannelCodes(call.args.calibration)
  ELSE IF IsAngle(call.args.channel) THEN 1..65535 ELSE ScanTimes

C17_Step ==
  op'.name \in {"cw_encode_channel", "cw_encode_ancillary"}
    => /\ ~InPhysicalRange(op') => StoredCode(op', out') = 0
       /\ StoredCode(op', out') \in ValidCodes(op') \cup {0}

\* C17: on every encode path (raw, albedo, temperature, angle, scan time) a
\* value outside the physical range of the path is stored as the code 0, and
\* the code stored is always 0 or a valid code of the path.
C17_OutOfRangeIsZero == [][C17_Step]_vars

----------------------------------------------------------------------------
(* Specification SpecCompress: 1B files expanded and compressed again *)

\* channel values of the first two pixels of a file
StreamValues == {0, 5, 60, 100, -5}

\* a 1B file of GridRows x WideColumns pixels as another producer writes it:
\* the header cw_close leaves, every channel value in full (the first two
\* are v, the others repeat the second), each graphics row one run of zeros
ProducedFile(v) ==
  LET d == Defined(GridRows, WideColumns, "avhrr_ch4")
      c == cw_close(d.cw_files, d.fs, 0).fs["a.cwf"]
      npix == GridRows * WideColumns
      value(k) == IF k <= 2 THEN v[k] ELSE v[2]
      data == Flatten([k \in 1..npix |->
                         <<CW_COM_WVAL_B1(value(k)),
                           CW_COM_WVAL_B2(value(k))>>], 1, npix)
      graphics == Flatten([i \in 1..GridRows |-> <<0, WideColumns - 1>>],
                          1, GridRows)
      head == WriteBytes(EmptyFile, 0, FileBytes(c, 0, CW_HEAD_COMP))
  IN WriteBytes(head, CW_HEAD_COMP, data \o graphics)

InitCompress ==
  \E v \in [1..2 -> StreamValues] :
    /\ cw_files = [id \in Slots |-> NULL]
    /\ fs = [p \in Paths |-> ProducedFile(v)]
    /\ op = NoCall
    /\ ret = CW_NOERR
    /\ out = <<>>
    /\ proj = NoProjection

OpenCompressed ==
  /\ OpenCount < MaxOpen
  /\ OpenA(Paths, {CW_NOWRITE, CW_WRITE})

GetExpanded ==
  GetVaraA({0}, {Window(CW_DATA, Pair(0, 1), Pair(1, 1), CW_FLOAT)})

CloseCompressed == CloseA({0})

NextCompress == OpenCompressed \/ GetExpanded \/ CloseCompressed

SpecCompress == InitCompress /\ [][NextCompress]_vars

\* the bytes of a 1B file after its header
PixelStream(f) == FileBytes(f, CW_HEAD_COMP, f.size - CW_HEAD_COMP)

\* every channel value of the working copy ufp is within 63 of the one
\* before it
SmallSteps(ufp, rows, columns) ==
  LET value(k) == CW_UNC_RVAL(Word16(ufp, 2 * columns + 2 * (k - 1)))
  IN \A k \in 2..(rows * columns) : Abs(value(k) - value(k - 1)) <= 63

\* the 1B file at path expanded by cw_uncompress and compressed again by
\* cw_compress
Recompressed(files, path) ==
  LET o == cw_open([id \in Slots |-> NULL], files, path, CW_WRITE, TRUE)
      u == cw_uncompress(o.cw_files[0], files)
  IN cw_compress(u.h, files)

C18_Step ==
  ( /\ op'.name = "cw_close"
    /\ ret' = CW_NOERR
    /\ Target(op') # NULL
    /\ Target(op').ufp
    /\ Target(op').wmode = CW_WRITE
    /\ SmallSteps(Target(op').tmp, Target(op').dims[CW_ROWS],
                  Target(op').dims[CW_COLUMNS]) )
    => LET x == fs'[Target(op').path]
           c == Recompressed(fs', Target(op').path)
       IN /\ c.rc = CW_NOERR
          /\ PixelStream(c.fs[Target(op').path]) = PixelStream(x)

\* C18: when cw_close compresses a working copy in which every channel
\* value is within 63 of the one before it, the 1B pixel stream x it writes
\* is a fixed point: x expanded by cw_uncompress and compressed again by
\* cw_compress is x, byte for byte.
C18_RecompressIsIdentity == [][C18_Step]_vars

----------------------------------------------------------------------------
(* Specification SpecId: calls with a dataset id that is not open.  The    *)
(* inquiry functions and cw_clone complete the functions that take an id.  *)

CW_ERR_READ_DIM == 30

cw_clone(table, files, cwid, cmode) == R(CW_NOERR, table, files, <<>>)

cw_inq_dimid(table, files, cwid, name) ==
  LET h == table[cwid]
      dimid == cw_lookup_dimid(name)
      fail(rc) == R(rc, table, files, <<>>)
  IN
  IF h = NULL THEN fail(CW_ERR_DATASET_ID)
  ELSE IF dimid = -1 THEN fail(CW_ERR_DIM)
  ELSE IF h.dims[dimid] = -1 THEN R(CW_ERR_DIM, table, files, <<dimid>>)
  ELSE R(CW_NOERR, table, files, <<dimid>>)

cw_inq_dim(table, files, cwid, dimid) ==
  LET h == table[cwid]
      length == cw_get_att(HFile(h, files), cw_dimensions[dimid + 1][2])
      fail(rc) == R(rc, table, files, <<>>)
  IN
  IF h = NULL THEN fail(CW_ERR_DATASET_ID)
  ELSE IF dimid < 0 \/ dimid > CW_DIM_NUM - 1 THEN fail(CW_ERR_DIM_ID)
  ELSE IF h.dims[dimid] = -1 THEN fail(CW_ERR_DIM_ID)
  ELSE IF length.rc # 0
  THEN R(CW_ERR_READ_DIM, table, files, <<cw_dimensions[dimid + 1][1]>>)
  ELSE R(CW_NOERR, table, files,
         <<cw_dimensions[dimid + 1][1], length.code>>)

cw_inq_varid(table, files, cwid, name) ==
  LET h == table[cwid]
      file_code == cw_get_att(HFile(h, files), CW_O_CHANNEL_NUMBER)
      user_code == cw_lookup_att_code(channel_number, name)
      fail(rc) == R(rc, table, files, <<>>)
  IN
  IF h = NULL THEN fail(CW_ERR_DATASET_ID)
  ELSE IF name = "graphics"
  THEN IF h.graphics = -1 THEN fail(CW_ERR_VAR)
       ELSE R(CW_NOERR, table, files, <<CW_GRAPHICS>>)
  ELSE IF h.data_id = -1 THEN fail(CW_ERR_VAR)
  ELSE IF file_code.rc # 0 THEN fail(CW_ERR_READ_ATT)
  ELSE IF ~user_code.found THEN fail(CW_ERR_VAR)
  ELSE IF user_code.code # file_code.code THEN fail(CW_ERR_VAR)
  ELSE R(CW_NOERR, table, files, <<CW_DATA>>)

\* the values stored are the name, the type, the number of dimensions, the
\* dimension ids and the number of attributes
cw_inq_var(table, files, cwid, varid) ==
  LET h == table[cwid]
      channel == cw_get_att(HFile(h, files), CW_O_CHANNEL_NUMBER)
      look == cw_lookup_att_code_name(channel_number, channel.code)
      fail(rc) == R(rc, table, files, <<>>)
  IN
  IF h = NULL THEN fail(CW_ERR_DATASET_ID)
  ELSE IF varid = CW_GRAPHICS
  THEN IF h.graphics = -1 THEN fail(CW_ERR_VAR_ID)
       ELSE R(CW_NOERR, table, files,
              <<"graphics", CW_BYTE, 2, <<CW_ROWS, CW_COLUMNS>>, 0>>)
  ELSE IF varid = CW_DATA
  THEN IF h.data_id = -1 THEN fail(CW_ERR_VAR_ID)
       ELSE IF channel.rc # 0 THEN fail(CW_ERR_READ_ATT)
       ELSE IF look.rc # 0 THEN fail(CW_ERR_UNSUP_CHANNEL_NUMBER)
       ELSE IF h.data_id \in {CW_DATA_ID_VISIBLE, CW_DATA_ID_IR,
                              CW_DATA_ID_ANCILLARY}
       THEN R(CW_NOERR, table, files,
              <<look.name, CW_FLOAT, 2, <<CW_ROWS, CW_COLUMNS>>,
                CW_ATT_NUM>>)
       ELSE IF h.data_id = CW_DATA_ID_CLOUD
       THEN R(CW_NOERR, table, files,
              <<look.name, CW_BYTE, 2, <<CW_ROWS, CW_COLUMNS>>,
                CW_ATT_NUM>>)
       ELSE R(CW_ERR_INTERNAL, table, files, <<look.name>>)
  ELSE fail(CW_ERR_VAR_ID)

cw_inq_attname(table, files, cwid, varid, attid) ==
  LET h == table[cwid]
      fail(rc) == R(rc, table, files, <<>>)
  IN
  IF h = NULL THEN fail(CW_ERR_DATASET_ID)
  ELSE IF varid = CW_GRAPHICS THEN fail(CW_ERR_ATT_ID)
  ELSE IF varid # CW_DATA THEN fail(CW_ERR_VAR_ID)
  ELSE IF h.data_id = -1 THEN fail(CW_ERR_VAR_ID)
  ELSE IF attid < 0 \/ attid > CW_ATT_NUM - 1 THEN fail(CW_ERR_ATT_ID)
  ELSE R(CW_NOERR, table, files, <<cw_attributes[attid + 1].att_name>>)

\* the values stored are the type and the length
cw_inq_att(table, files, cwid, varid, name) ==
  LET h == table[cwid]
      att == cw_attributes[cw_lookup_attid(name).attid + 1]
      get == cw_get_att(HFile(h, files), att.att_offset)
      look == cw_lookup_att_code_name(att.att_code, get.code)
      fail(rc) == R(rc, table, files, <<>>)
  IN
  IF h = NULL THEN fail(CW_ERR_DATASET_ID)
  ELSE IF AttCheck(h, varid, name) # CW_NOERR
  THEN fail(AttCheck(h, varid, name))
  ELSE IF att.att_type \in {CW_SHORT, CW_FLOAT}
  THEN R(CW_NOERR, table, files, <<att.att_type, 1>>)
  ELSE IF att.att_type = CW_CHAR
  THEN IF get.rc # 0 THEN R(CW_ERR_READ_ATT, table, files, <<att.att_type>>)
       ELSE IF look.rc # 0
       THEN R(CW_ERR_ATT_VALUE, table, files, <<att.att_type>>)
       ELSE R(CW_NOERR, table, files, <<att.att_type, Len(look.name)>>)
  ELSE R(CW_ERR_INTERNAL, table, files, <<att.att_type>>)

cw_inq_attid(table, files, cwid, varid, name) ==
  LET h == table[cwid]
      fail(rc) == R(rc, table, files, <<>>)
  IN
  IF h = NULL THEN fail(CW_ERR_DATASET_ID)
  ELSE IF AttCheck(h, varid, name) # CW_NOERR
  THEN fail(AttCheck(h, varid, name))
  ELSE R(CW_NOERR, table, files, <<cw_lookup_attid(name).attid>>)

\* the ids of the calls: below the table, slot 0 (in use until it is closed),
\* slot 1 (never in use), the first index past the table
Ids == {-1, 0, 1, CW_MAX_FILES}

\* "if (cw_files[cwid] == NULL) return (CW_ERR_DATASET_ID)" with an id
\* outside the table: no function compares the id with the bounds of the
\* table, so the word tested lies beside it.  It is null, or it is not and
\* the function goes on with it as a handle.
BesideTable(null) ==
  IF null THEN R(CW_ERR_DATASET_ID, cw_files, fs, <<>>)
  ELSE [R(CW_NOERR, cw_files, fs, <<>>) EXCEPT !.ub = TRUE]

\* a call of a function that tests cw_files[cwid] first
IdCall(name, cwid, args, r) ==
  IF cwid \in Slots THEN Call(name, cwid, args, r)
  ELSE \E null \in BOOLEAN : Call(name, cwid, args, BesideTable(null))

\* the index of the handle table a call reads: cw_clone reads none
TableReads(call) == IF call.name = "cw_clone" THEN {} ELSE {call.cwid}

\* a dataset in data mode in slot 0
IdDatasets == {Defined(GridRows, WideColumns, "avhrr_ch1")}

InitId ==
  \E d \in IdDatasets :
    /\ cw_files = d.cw_files
    /\ fs = d.fs
    /\ op = NoCall
    /\ ret = d.ret
    /\ out = <<>>
    /\ proj = NoProjection

IdClone ==
  \E cwid \in Ids :
    Call("cw_clone", cwid, [mode |-> CW_CLOBBER],
         cw_clone(cw_files, fs, cwid, CW_CLOBBER))

IdEndDef ==
  \E cwid \in Ids :
    IdCall("cw_enddef", cwid, <<>>, cw_enddef(cw_files, fs, cwid))

IdClose ==
  \E cwid \in Ids :
    IdCall("cw_close", cwid, <<>>, cw_close(cw_files, fs, cwid))

IdDefDim ==
  \E cwid \in Ids, d \in {<<"rows", GridRows>>, <<"columns", WideColumns>>} :
    IdCall("cw_def_dim", cwid, [name |-> d[1], len |-> d[2]],
           cw_def_dim(cw_files, fs, cwid, d[1], d[2]))

IdInqDimid ==
  \E cwid \in Ids, name \in {"rows", "depth"} :
    IdCall("cw_inq_dimid", cwid, [name |-> name],
           cw_inq_dimid(cw_files, fs, cwid, name))

IdInqDim ==
  \E cwid \in Ids, dimid \in {CW_COLUMNS, CW_DIM_NUM} :
    IdCall("cw_inq_dim", cwid, [dimid |-> dimid],
           cw_inq_dim(cw_files, fs, cwid, dimid))

IdDefVar ==
  \E cwid \in Ids :
    LET v == ChannelCall("avhrr_ch1")
    IN IdCall("cw_def_var", cwid, v,
              cw_def_var(cw_files, fs, cwid, v.name, v.xtype, v.ndims,
                         v.dimids))

IdInqVarid ==
  \E cwid \in Ids, name \in {"avhrr_ch1", "graphics"} :
    IdCall("cw_inq_varid", cwid, [name |-> name],
           cw_inq_varid(cw_files, fs, cwid, name))

IdInqVar ==
  \E cwid \in Ids, varid \in {CW_DATA, CW_GRAPHICS} :
    IdCall("cw_inq_var", cwid, [varid |-> varid],
           cw_inq_var(cw_files, fs, cwid, varid))

\* a put of the bad value, which is stored as the code 0 of an unset pixel
IdFloatPuts ==
  {PutOf(Window(CW_DATA, Pair(0, 0), Pair(1, 1), CW_FLOAT), <<CW_BADVAL>>)}

IdPutVaraFloat ==
  \E cwid \in Ids, g \in IdFloatPuts :
    IdCall("cw_put_vara", cwid, g,
           cw_put_vara(cw_files, fs, cwid, g.varid, g.start, g.count,
                       g.data, g.type))

IdPutVaraUchar ==
  \E cwid \in Ids, g \in BytePuts :
    IdCall("cw_put_vara", cwid, g,
           cw_put_vara(cw_files, fs, cwid, g.varid, g.start, g.count,
                       g.data, g.type))

\* cw_get_vara_float and cw_get_vara_uchar
IdGetVara ==
  \E cwid \in Ids, g \in Gets :
    IdCall("cw_get_vara", cwid, g,
           cw_get_vara(cw_files, fs, cwid, g.varid, g.start, g.count,
                       g.type))

IdInqAttname ==
  \E cwid \in Ids, attid \in {0, CW_ATT_NUM} :
    IdCall("cw_inq_attname", cwid, [varid |-> CW_DATA, attid |-> attid],
           cw_inq_attname(cw_files, fs, cwid, CW_DATA, attid))

IdInqAtt ==
  \E cwid \in Ids, name \in {"satellite_id", "orbit_start_day"} :
    IdCall("cw_inq_att", cwid, [varid |-> CW_DATA, name |-> name],
           cw_inq_att(cw_files, fs, cwid, CW_DATA, name))

IdInqAttid ==
  \E cwid \in Ids, name \in {"satellite_id", "no_such_attribute"} :
    IdCall("cw_inq_attid", cwid, [varid |-> CW_DATA, name |-> name],
           cw_inq_attid(cw_files, fs, cwid, CW_DATA, name))

IdPutAttText ==
  \E cwid \in Ids :
    LET c == TextAtt(CW_DATA, "satellite_id", "noaa-17")
    IN IdCall("cw_put_att_text", cwid, c,
              cw_put_att_text(cw_files, fs, cwid, c.varid, c.name, c.len,
                              c.tp))

IdPutAttShort ==
  \E cwid \in Ids :
    LET c == ShortAtt("orbit_start_day", 0)
    IN IdCall("cw_put_att_short", cwid, c,
              cw_put_att_short(cw_files, fs, cwid, c.varid, c.name, c.xtype,
                               c.len, c.sp))

IdPutAttFloat ==
  \E cwid \in Ids :
    LET c == FloatAtt("start_latitude", <<0, 1>>)
    IN IdCall("cw_put_att_float", cwid, c,
              cw_put_att_float(cw_files, fs, cwid, c.varid, c.name, c.xtype,
                               c.len, c.fp))

IdGetAttText ==
  \E cwid \in Ids :
    IdCall("cw_get_att_text", cwid,
           [varid |-> CW_DATA, name |-> "satellite_id"],
           cw_get_att_text(cw_files, fs, cwid, CW_DATA, "satellite_id"))

IdGetAttShort ==
  \E cwid \in Ids :
    IdCall("cw_get_att_short", cwid,
           [varid |-> CW_DATA, name |-> "orbit_start_day"],
           cw_get_att_short(cw_files, fs, cwid, CW_DATA, "orbit_start_day"))

IdGetAttFloat ==
  \E cwid \in Ids :
    IdCall("cw_get_att_float", cwid,
           [varid |-> CW_DATA, name |-> "start_latitude"],
           cw_get_att_float(cw_files, fs, cwid, CW_DATA, "start_latitude"))

NextId ==
  \/ IdClone \/ IdEndDef \/ IdClose
  \/ IdDefDim \/ IdInqDimid \/ IdInqDim
  \/ IdDefVar \/ IdInqVarid \/ IdInqVar
  \/ IdPutVaraFloat \/ IdPutVaraUchar \/ IdGetVara
  \/ IdInqAttname \/ IdInqAtt \/ IdInqAttid
  \/ IdPutAttText \/ IdPutAttShort \/ IdPutAttFloat
  \/ IdGetAttText \/ IdGetAttShort \/ IdGetAttFloat

SpecId == InitId /\ [][NextId]_vars

\* the functions of the library that take a dataset id
IdFunctions ==
  {"cw_clone", "cw_enddef", "cw_close", "cw_def_dim", "cw_inq_dimid",
   "cw_inq_dim", "cw_def_var", "cw_inq_varid", "cw_inq_var", "cw_put_vara",
   "cw_get_vara", "cw_inq_attname", "cw_inq_att", "cw_inq_attid",
   "cw_put_att_text", "cw_put_att_short", "cw_put_att_float",
   "cw_get_att_text", "cw_get_att_short", "cw_get_att_float"}

\* the id of a call does not denote an open dataset
NotOpen(call) == call.cwid \notin Slots \/ cw_files[call.cwid] = NULL

C19_Step ==
  (op'.name \in IdFunctions /\ NotOpen(op'))
    => /\ ret' = CW_ERR_DATASET_ID
       /\ cw_files' = cw_files
       /\ fs' = fs
       /\ TableReads(op') \subseteq Slots

\* C19: a call of any function that takes a dataset id, with an id that is
\* not an open dataset (a free slot, a negative id, an id of 100 or more),
\* returns CW_ERR_DATASET_ID, changes neither the handle table nor a file,
\* and reads the handle table inside its 100 slots only.
C19_InvalidIdRejected == [][C19_Step]_vars

----------------------------------------------------------------------------
(* The projection module (cwproj.c).  Its static variables are the record  *)
(* proj.  The trigonometric parts of the Mercator and polar transforms are *)
(* kept as terms over their exact arguments: two results are equal when    *)
(* the function and its arguments are.                                     *)

UNMAPPED == 0
MERCATOR == 1
POLAR == 2
LINEAR == 3
JMAX == 24385
ICEN == 12193

\* a quotient of two floats, the denominator kept positive; a division by
\* zero gives the denominator 0
RatDiv(a, b) ==
  IF b[1] >= 0 THEN <<a[1] * b[2], a[2] * b[1]>>
  ELSE <<-(a[1] * b[2]), -(a[2] * b[1])>>

RatAdd(a, n) == <<a[1] + n * a[2], a[2]>>

\* what a function of cwproj.c hands back: its return code and the statics
P(rc, q) == [ret |-> rc, proj |-> q]

polar_correct(q) ==
  LET q1 == IF RatEq(q.res, <<15, 10>>)
            THEN [q EXCEPT
                    !.ioff = ShortOf(roundf(<<q.ioff * 150, 147>>)),
                    !.joff = ShortOf(roundf(<<q.joff * 150, 147>>)),
                    !.res = <<147, 100>>]
            ELSE IF RatEq(q.res, <<29, 10>>)
            THEN [q EXCEPT
                    !.ioff = ShortOf(roundf(<<q.ioff * 290, 294>>)),
                    !.joff = ShortOf(roundf(<<q.joff * 290, 294>>)),
                    !.res = <<294, 100>>]
            ELSE q
  IN [q1 EXCEPT !.plon = IF q.splon = -132 THEN <<-1325, 10>>
                         ELSE IF q.splon = 180 THEN <<-17907, 100>>
                         ELSE IF q.splon = 179 THEN <<17965, 100>>
                         ELSE <<q.splon, 1>>]

\* linear_correct, given the results of its four cw_get_att_float calls:
\* box is <<start_latitude, end_latitude, start_longitude, end_longitude>>
linear_correct(q, box) ==
  LET q0 == IF q.res[1] = 0 THEN [q EXCEPT !.res = <<1, 100>>] ELSE q
      start_lat == box[1]
      end_lat == box[2]
      start_lon == box[3]
      end_lon == box[4]
      ul_lat == IF RatLess(end_lat.out[1], start_lat.out[1])
                THEN start_lat.out[1] ELSE end_lat.out[1]
      ul_lon == IF RatLess(start_lon.out[1], end_lon.out[1])
                THEN start_lon.out[1] ELSE end_lon.out[1]
  IN
  IF ~(q0.ioff = 0 /\ q0.joff = 0) THEN P(CW_NOERR, q0)
  ELSE IF start_lat.ret # CW_NOERR THEN P(start_lat.ret, q0)
  ELSE IF end_lat.ret # CW_NOERR THEN P(end_lat.ret, q0)
  ELSE IF start_lon.ret # CW_NOERR THEN P(start_lon.ret, q0)
  ELSE IF end_lon.ret # CW_NOERR THEN P(end_lon.ret, q0)
  ELSE P(CW_NOERR,
         [q0 EXCEPT !.ioff = ShortOf(roundf(RatDiv(ul_lon, q0.res))),
                    !.joff = ShortOf(-roundf(RatDiv(ul_lat, q0.res)))])

\* cw_init_proj after the projection type is read: the resolution and the
\* offsets, then the corrections.  res, ioff and joff are the results of
\* the cw_get_att calls of these attributes.
InitProjParameters(q, res, ioff, joff, box) ==
  LET q1 == [q EXCEPT !.res = res.out[1]]
      q2 == [q EXCEPT !.res = res.out[1], !.ioff = ioff.out[1]]
      q3 == [q EXCEPT !.res = res.out[1], !.ioff = ioff.out[1],
                      !.joff = joff.out[1]]
  IN
  IF q.ptype = UNMAPPED THEN P(CW_NOERR, q)
  ELSE IF res.ret # CW_NOERR THEN P(res.ret, q)
  ELSE IF ioff.ret # CW_NOERR THEN P(ioff.ret, q1)
  ELSE IF joff.ret # CW_NOERR THEN P(joff.ret, q2)
  ELSE IF q.ptype = LINEAR THEN linear_correct(q3, box)
  ELSE IF q.ptype = POLAR THEN P(CW_NOERR, polar_correct(q3))
  ELSE P(CW_NOERR, q3)

\* cw_init_proj, given the results of its cw_get_att calls: the projection
\* type, the end latitude, the hemisphere and the prime longitude
InitProjType(q, text_ptype, end_lat, hem, splon, res, ioff, joff, box) ==
  IF text_ptype.ret # CW_NOERR THEN P(text_ptype.ret, q)
  ELSE IF text_ptype.out[1] = "unmapped"
  THEN InitProjParameters([q EXCEPT !.ptype = UNMAPPED], res, ioff, joff,
                          box)
  ELSE IF text_ptype.out[1] = "mercator"
  THEN IF end_lat.ret # CW_NOERR THEN P(end_lat.ret, q)
       ELSE InitProjParameters(
              [q EXCEPT !.end_lat = end_lat.out[1],
                        !.hem = IF end_lat.out[1][1] > 0 THEN 1 ELSE -1,
                        !.ptype = MERCATOR], res, ioff, joff, box)
  ELSE IF text_ptype.out[1] = "polar"
  THEN IF hem.ret # CW_NOERR THEN P(hem.ret, q)
       ELSE IF splon.ret # CW_NOERR
       THEN P(splon.ret, [q EXCEPT !.hem = hem.out[1]])
       ELSE InitProjParameters(
              [q EXCEPT !.hem = hem.out[1], !.splon = splon.out[1],
                        !.ptype = POLAR], res, ioff, joff, box)
  ELSE IF text_ptype.out[1] = "linear"
  THEN InitProjParameters([q EXCEPT !.ptype = LINEAR], res, ioff, joff, box)
  ELSE InitProjParameters(q, res, ioff, joff, box)

\* the attribute getters of the data variable (varid = 0)
ProjText(table, files, cwid, name) ==
  cw_get_att_text(table, files, cwid, 0, name)
ProjShort(table, files, cwid, name) ==
  cw_get_att_short(table, files, cwid, 0, name)
ProjFloat(table, files, cwid, name) ==
  cw_get_att_float(table, files, cwid, 0, name)

cw_init_proj(table, files, cwid, q) ==
  InitProjType(q,
    ProjText(table, files, cwid, "projection_type"),
    ProjFloat(table, files, cwid, "end_latitude"),
    ProjShort(table, files, cwid, "polar_hemisphere"),
    ProjShort(table, files, cwid, "polar_prime_longitude"),
    ProjFloat(table, files, cwid, "resolution"),
    ProjShort(table, files, cwid, "grid_ioffset"),
    ProjShort(table, files, cwid, "grid_joffset"),
    <<ProjFloat(table, files, cwid, "start_latitude"),
      ProjFloat(table, files, cwid, "end_latitude"),
      ProjFloat(table, files, cwid, "start_longitude"),
      ProjFloat(table, files, cwid, "end_longitude")>>)

\* the fields of the proj_info structure, in the order of its declaration
cw_proj_info(q) == <<q.ptype, q.res, q.plon, q.hem, q.ioff, q.joff>>

\* a value of a trigonometric expression: the expression and its arguments
Term(f, args) == [fn |-> f, args |-> args]

RatNeg(a) == <<-a[1], a[2]>>

\* LONR: a longitude brought into [-180, 180)
LONR(a) ==
  IF ~RatLess(a, <<180, 1>>) THEN RatAdd(a, -360)
  ELSE IF RatLess(a, <<-180, 1>>) THEN RatAdd(a, 360)
  ELSE a

\* ijxy: the grid (x, y) of the image (i, j)
ijxy(i, j, res, ioff, joff) ==
  << <<(i + ioff - 1) * res[1], res[2]>>,
     <<(j + joff - 1) * res[1], res[2]>> >>

\* xyij: the image (i, j) of the grid (x, y)
xyij(x, y, res, ioff, joff) ==
  <<RatAdd(RatDiv(x, res), 1 - ioff), RatAdd(RatDiv(y, res), 1 - joff)>>

\* xyij of a grid position that is a term
TermIj(x, y, res, ioff, joff) ==
  <<Term("xyij", <<x, res, ioff>>), Term("xyij", <<y, res, joff>>)>>

\* the transforms give <<lat, lon>> and <<i, j>>
cw_polar_ijll(i, j, hem, plon, res, ioff, joff) ==
  LET xy == ijxy(i, j, res, ioff, joff)
      x == xy[1]
      y == IF hem = -1 THEN RatAdd(RatNeg(xy[2]), JMAX + 1) ELSE xy[2]
  IN <<Term("polar_lat", <<x, y>>), Term("polar_lon", <<x, y, LONR(plon)>>)>>

cw_polar_llij(lat, lon, hem, plon, res, ioff, joff) ==
  LET dlon == <<LONR(lon), LONR(plon)>>
  IN TermIj(Term("polar_x", <<lat, dlon, hem>>),
            Term("polar_y", <<lat, dlon, hem>>), res, ioff, joff)

cw_mercator_ijll(i, j, hem, res, ioff, joff) ==
  LET xy == ijxy(i, j, res, ioff, joff)
  IN <<Term("mercator_lat", <<xy[2], IF hem = -1 THEN -1 ELSE 1>>),
       Term("mercator_lon", <<xy[1]>>)>>

cw_mercator_llij(lat, lon, hem, res, ioff, joff) ==
  TermIj(Term("mercator_x", <<lon>>),
         Term("mercator_y", <<lat, IF hem = -1 THEN 1 ELSE -1>>),
         res, ioff, joff)

cw_linear_ijll(i, j, res, ioff, joff) ==
  LET xy == ijxy(i, j, res, ioff, joff)
  IN <<RatNeg(xy[2]), xy[1]>>

cw_linear_llij(lat, lon, res, ioff, joff) ==
  xyij(lon, RatNeg(lat), res, ioff, joff)

\* cw_get_ll: <<lat, lon>>, or nothing before the first cw_init_proj
cw_get_ll(i, j, q) ==
  IF q.ptype = UNMAPPED THEN << <<j, 1>>, <<i, 1>> >>
  ELSE IF q.ptype = MERCATOR
  THEN cw_mercator_ijll(i, j, q.hem, q.res, q.ioff, q.joff)
  ELSE IF q.ptype = POLAR
  THEN cw_polar_ijll(i, j, q.hem, q.plon, q.res, q.ioff, q.joff)
  ELSE IF q.ptype = LINEAR
  THEN cw_linear_ijll(i, j, q.res, q.ioff, q.joff)
  ELSE <<>>

\* cw_get_ij: <<i, j>>, or nothing before the first cw_init_proj
cw_get_ij(lat, lon, q) ==
  IF q.ptype = UNMAPPED THEN <<lon, lat>>
  ELSE IF q.ptype = MERCATOR
  THEN cw_mercator_llij(lat, lon, q.hem, q.res, q.ioff, q.joff)
  ELSE IF q.ptype = POLAR
  THEN cw_polar_llij(lat, lon, q.hem, q.plon, q.res, q.ioff, q.joff)
  ELSE IF q.ptype = LINEAR
  THEN cw_linear_llij(lat, lon, q.res, q.ioff, q.joff)
  ELSE <<>>

----------------------------------------------------------------------------
(* Specification SpecProj: two datasets with their own projection headers, *)
(* and the projection calls in any order                                   *)

ProjPaths == <<"a.cwf", "b.cwf">>

\* lat and lon are <<start, end>>
ProjHeader(type, res, ioff, joff, hem, splon, lat, lon) ==
  [type |-> type, res |-> res, ioff |-> ioff, joff |-> joff, hem |-> hem,
   splon |-> splon, lat |-> lat, lon |-> lon]

NoBox == << <<0, 1>>, <<0, 1>> >>

\* an unmapped header, Mercator headers of the two hemispheres, polar
\* headers with and without corrected parameters, linear headers with and
\* without offsets
ProjHeaders ==
  {ProjHeader("unmapped", <<0, 1>>, 0, 0, 0, 0, NoBox, NoBox),
   ProjHeader("mercator", <<147, 100>>, 100, 200, 0, 0,
              << <<20, 1>>, <<30, 1>> >>, << <<-130, 1>>, <<-120, 1>> >>),
   ProjHeader("mercator", <<4, 1>>, -50, 300, 0, 0,
              << <<-20, 1>>, <<-30, 1>> >>, << <<10, 1>>, <<20, 1>> >>),
   ProjHeader("polar", <<15, 10>>, 147, 294, 1, -132, NoBox, NoBox),
   ProjHeader("polar", <<294, 100>>, 10, 20, -1, 45, NoBox, NoBox),
   ProjHeader("linear", <<0, 1>>, 0, 0, 0, 0,
              << <<20, 1>>, <<30, 1>> >>, << <<-130, 1>>, <<-120, 1>> >>),
   ProjHeader("linear", <<5, 100>>, 10, 20, 0, 0, NoBox, NoBox)}

\* the attribute puts that store a header: a sequence of [name, type, value]
HeaderPuts(hd) ==
  LET put(name, type, value) ==
        [name |-> name, type |-> type, value |-> value]
  IN << put("projection_type", CW_CHAR, hd.type),
        put("resolution", CW_FLOAT, hd.res),
        put("grid_ioffset", CW_SHORT, hd.ioff),
        put("grid_joffset", CW_SHORT, hd.joff),
        put("polar_hemisphere", CW_SHORT, hd.hem),
        put("polar_prime_longitude", CW_SHORT, hd.splon),
        put("start_latitude", CW_FLOAT, hd.lat[1]),
        put("end_latitude", CW_FLOAT, hd.lat[2]),
        put("start_longitude", CW_FLOAT, hd.lon[1]),
        put("end_longitude", CW_FLOAT, hd.lon[2]) >>

\* cw_put_att_text, cw_put_att_short or cw_put_att_float of one attribute
PutHeaderAtt(s, cwid, c) ==
  IF c.type = CW_CHAR
  THEN cw_put_att_text(s.cw_files, s.fs, cwid, CW_DATA, c.name,
                       Len(c.value), c.value)
  ELSE IF c.type = CW_SHORT
  THEN cw_put_att_short(s.cw_files, s.fs, cwid, CW_DATA, c.name, CW_SHORT,
                        1, c.value)
  ELSE cw_put_att_float(s.cw_files, s.fs, cwid, CW_DATA, c.name, CW_FLOAT,
                        1, c.value)

RECURSIVE PutHeader(_, _, _, _)
\* the puts from the k-th on, each made on the result of the one before
PutHeader(s, cwid, puts, k) ==
  IF k > Len(puts) THEN s
  ELSE CHOOSE r \in {PutHeader(PutHeaderAtt(x, cwid, puts[k]), cwid, puts,
                                k + 1) : x \in {s}} : TRUE

\* the result of cw_create of the path, the definition of a grid and a
\* channel, and the puts of the header
WithDataset(s, cwid, path, hd) ==
  LET s0 == cw_create(s.cw_files, s.fs, path, CW_CLOBBER, TRUE)
      s1 == cw_def_dim(s0.cw_files, s0.fs, cwid, "rows", GridRows)
      s2 == cw_def_dim(s1.cw_files, s1.fs, cwid, "columns", WideColumns)
      s3 == cw_def_var(s2.cw_files, s2.fs, cwid, "avhrr_ch1", CW_FLOAT,
                       CW_DIM_NUM, <<CW_ROWS, CW_COLUMNS>>)
  IN PutHeader(s3, cwid, HeaderPuts(hd), 1)

\* dataset 0 with the header a and dataset 1 with the header b
ProjDatasets(a, b) ==
  CHOOSE r \in
    {WithDataset(x, 1, ProjPaths[2], b) :
       x \in {WithDataset(
                [cw_files |-> [id \in Slots |-> NULL],
                 fs |-> [p \in {ProjPaths[1], ProjPaths[2]} |-> NoFile]],
                0, ProjPaths[1], a)}} : TRUE

InitProj ==
  \E a \in ProjHeaders, b \in ProjHeaders :
    \E d \in {ProjDatasets(a, b)} :
      /\ cw_files = d.cw_files
      /\ fs = d.fs
      /\ op = NoCall
      /\ ret = d.ret
      /\ out = <<>>
      /\ proj = NoProjection

\* a short converted from a float that it cannot hold is any short; three
\* of them stand for all
UndefinedShorts == {-32768, 0, 32767}

\* the contexts cw_init_proj can leave
Outcomes(q) ==
  {[q EXCEPT !.ioff = a, !.joff = b] :
     a \in (IF q.ioff = Undefined THEN UndefinedShorts ELSE {q.ioff}),
     b \in (IF q.joff = Undefined THEN UndefinedShorts ELSE {q.joff})}

\* the ids of the projection calls: the two datasets and a free slot
ProjCwids == {0, 1, 2}

CwInitProj ==
  \E cwid \in ProjCwids :
    LET r == cw_init_proj(cw_files, fs, cwid, proj)
    IN /\ op' = [name |-> "cw_init_proj", cwid |-> cwid, args |-> <<>>]
       /\ ret' = r.ret
       /\ proj' \in Outcomes(r.proj)
       /\ out' = <<>>
       /\ UNCHANGED <<cw_files, fs>>

CwProjInfo ==
  /\ op' = [name |-> "cw_proj_info", cwid |-> -1, args |-> <<>>]
  /\ ret' = CW_NOERR
  /\ out' = cw_proj_info(proj)
  /\ UNCHANGED <<cw_files, fs, proj>>

\* image positions <<i, j>> and places <<lat, lon>>
ProjPixels == {<<1, 1>>, <<100, 200>>}
ProjPlaces == {<< <<30, 1>>, <<-120, 1>> >>, << <<-45, 1>>, <<190, 1>> >>}

CwGetLl ==
  \E p \in ProjPixels :
    /\ op' = [name |-> "cw_get_ll", cwid |-> -1, args |-> p]
    /\ out' = cw_get_ll(p[1], p[2], proj)
    /\ UNCHANGED <<cw_files, fs, ret, proj>>

CwGetIj ==
  \E g \in ProjPlaces :
    /\ op' = [name |-> "cw_get_ij", cwid |-> -1, args |-> g]
    /\ out' = cw_get_ij(g[1], g[2], proj)
    /\ UNCHANGED <<cw_files, fs, ret, proj>>

NextProj == CwInitProj \/ CwProjInfo \/ CwGetLl \/ CwGetIj

SpecProj == InitProj /\ [][NextProj]_vars

\* the context that cw_init_proj of the dataset leaves in a process that has
\* initialized no projection before
FirstInit(cwid) == cw_init_proj(cw_files, fs, cwid, NoProjection).proj

SameConversions(q1, q2) ==
  /\ \A p \in ProjPixels : cw_get_ll(p[1], p[2], q1) = cw_get_ll(p[1], p[2], q2)
  /\ \A g \in ProjPlaces : cw_get_ij(g[1], g[2], q1) = cw_get_ij(g[1], g[2], q2)

C20_Step ==
  (op'.name = "cw_init_proj" /\ ret' = CW_NOERR)
    => /\ cw_proj_info(proj') = cw_proj_info(FirstInit(op'.cwid))
       /\ SameConversions(proj', FirstInit(op'.cwid))

\* C20: after a successful cw_init_proj of a dataset B, whatever projection
\* was initialized before, the projection info (type, resolution, prime
\* longitude, hemisphere, offsets) and the results of cw_get_ll and
\* cw_get_ij are those of a process whose first cw_init_proj was of B: they
\* depend on the header of B only.
C20_LastInitOwnsContext == [][C20_Step]_vars

----------------------------------------------------------------------------
(* Specification SpecLon: the projection of either dataset, and            *)
(* cw_get_ll of pixels near and far from the grid origin                   *)

\* image positions <<i, j>>: the first pixel, one of an image, and two far
\* to the east
LonPixels == {<<1, 1>>, <<100, 200>>, <<5000, 1>>, <<14000, 300>>}

GetLongitude ==
  \E p \in LonPixels :
    /\ proj.ptype # -1
    /\ op' = [name |-> "cw_get_ll", cwid |-> -1, args |-> p]
    /\ out' = cw_get_ll(p[1], p[2], proj)
    /\ UNCHANGED <<cw_files, fs, ret, proj>>

NextLon == CwInitProj \/ GetLongitude

SpecLon == InitProj /\ [][NextLon]_vars

\* R*PI, the grid x at which RTOD (x/R) is 180: 6371.2 * 3.141592654 is
\* 20015.7151..., and no grid x of the pixels is between 20015.71 and
\* 20015.72
HalfTurn == <<2001572, 100>>

InHalfOpenTurn(lon) == ~RatLess(lon, <<-180, 1>>) /\ RatLess(lon, <<180, 1>>)

\* whether the longitude that cw_get_ll gave under the context q is in
\* [-180, 180).  A linear longitude is a number.  A mercator longitude is
\* RTOD (x/R), in the range when -R*PI <= x < R*PI.  A polar longitude is
\* LONR of the sum of plon and of an angle of [-180, 180], in the range
\* when plon is.
LongitudeInRange(q, lon) ==
  IF q.ptype = LINEAR THEN InHalfOpenTurn(lon)
  ELSE IF q.ptype = MERCATOR
  THEN /\ ~RatLess(lon.args[1], RatNeg(HalfTurn))
       /\ RatLess(lon.args[1], HalfTurn)
  ELSE IF q.ptype = POLAR THEN InHalfOpenTurn(lon.args[3])
  ELSE TRUE

C21_Step ==
  (op'.name = "cw_get_ll" /\ proj.ptype \in {MERCATOR, POLAR, LINEAR})
    => LongitudeInRange(proj, out'[2])

\* C21: under a polar, a mercator or a linear projection, the longitude
\* that cw_get_ll returns for a pixel (i, j) is at least -180 and less
\* than 180.
C21_LongitudeNormalized == [][C21_Step]_vars

----------------------------------------------------------------------------
(* Specification SpecRuns: 1B files of a small grid whose graphics stream  *)
(* holds runs that cross the row boundaries                                *)

RunPixels == SmallRows * SmallColumns

\* the run lengths of a graphics stream: one, two or three runs that cover
\* the grid
RunStreams ==
  {<<RunPixels>>}
    \cup {<<a, RunPixels - a>> : a \in 1..(RunPixels - 1)}
    \cup UNION {{<<a, b, RunPixels - a - b>> : b \in 1..(RunPixels - a - 1)} :
                 a \in 1..(RunPixels - 2)}

\* a 1B file of SmallRows x SmallColumns pixels as another producer writes
\* it: the header of the defined dataset, every channel value zero and in
\* full, and the graphics pairs (r, runs[r] - 1): run r has the value r
RunFile(runs) ==
  LET d == Defined(SmallRows, SmallColumns, "avhrr_ch4")
      data == Flatten([k \in 1..RunPixels |->
                         <<CW_COM_WVAL_B1(0), CW_COM_WVAL_B2(0)>>],
                      1, RunPixels)
      graphics == Flatten([r \in 1..Len(runs) |-> <<r, runs[r] - 1>>],
                          1, Len(runs))
      head == WriteBytes(EmptyFile, 0,
                         FileBytes(HFile(d.cw_files[0], d.fs), 0,
                                   CW_HEAD_MIN))
  IN WriteBytes(head, CW_HEAD_COMP, data \o graphics)

InitRuns ==
  \E runs \in RunStreams :
    /\ cw_files = [id \in Slots |-> NULL]
    /\ fs = [p \in Paths |-> RunFile(runs)]
    /\ op = NoCall
    /\ ret = CW_NOERR
    /\ out = <<>>
    /\ proj = NoProjection

OpenRuns ==
  /\ OpenCount < MaxOpen
  /\ OpenA(Paths, {CW_NOWRITE, CW_WRITE})

\* the graphics of the whole grid, and the first channel value
GetRuns ==
  GetVaraA({0}, {Window(CW_GRAPHICS, Pair(0, 0),
                        Pair(SmallRows, SmallColumns), CW_BYTE),
                 Window(CW_DATA, Pair(0, 0), Pair(1, 1), CW_FLOAT)})

NextRuns == OpenRuns \/ GetRuns

SpecRuns == InitRuns /\ [][NextRuns]_vars

RECURSIVE RunsBefore(_, _)
\* the pixels of the runs 1..r
RunsBefore(runs, r) ==
  IF r = 0 THEN 0 ELSE runs[r] + RunsBefore(runs, r - 1)

\* the graphics of the grid in row-major order: pixel k has the value of
\* the run it is in
RowMajor(runs) ==
  [k \in 1..RunPixels |->
     CHOOSE r \in 1..Len(runs) :
       RunsBefore(runs, r - 1) < k /\ k <= RunsBefore(runs, r)]

\* a graphics row of cw_uncompress is written beyond its columns entries
RowOverrun(h, files) == ~h.ufp /\ cw_uncompress(h, files).ub

C22_Step ==
  \A runs \in RunStreams :
    ( /\ op'.name = "cw_get_vara"
      /\ op'.args.varid = CW_GRAPHICS
      /\ Target(op') # NULL
      /\ fs[Target(op').path] = RunFile(runs) )
      => /\ ~RowOverrun(Target(op'), fs)
         /\ ret' = CW_NOERR
         /\ out' = RowMajor(runs)

\* C22: when a 1B file is expanded, each run of its graphics stream fills
\* consecutive pixels in row-major order, whatever the width of the grid:
\* the part of a run that does not fit in a row goes on in the next rows
\* with the same value and the remaining count, the next pair is read after
\* it, and no row is written beyond its columns entries.  The graphics read
\* from the dataset are then the runs in row-major order.
C22_RunsInRowMajorOrder == [][C22_Step]_vars

----------------------------------------------------------------------------
(* Specification SpecDef: datasets of several sizes and classes, created   *)
(* and taken through cw_enddef                                             *)

\* grids whose rows are shorter than, as long as, and longer than the
\* header that cw_create writes
DefDimCalls ==
  {<<"rows", 1>>, <<"rows", SmallRows>>, <<"columns", SmallColumns>>,
   <<"columns", NarrowColumns>>, <<"columns", WideColumns>>,
   <<"columns", CW_HEAD_MIN>>}

\* a visible channel, an infrared channel, the byte channel and an
\* ancillary channel
DefVarCalls ==
  {ChannelCall(n) : n \in {"avhrr_ch1", "avhrr_ch4", "cloud", "sat_zenith"}}

CreateDef == OpenCount < MaxOpen /\ CreateA(Paths, {CW_CLOBBER})
DefDimDef == DefDimA({0}, DefDimCalls)
DefVarDef == DefVarA({0}, DefVarCalls)
EndDefDef == EndDefA({0})

NextDef == CreateDef \/ DefDimDef \/ DefVarDef \/ EndDefDef

SpecDef == Init /\ [][NextDef]_vars

\* the raw values of the rows x columns grid of the handle h in its file f
RawGrid(h, f) ==
  cw_get_raw(f, h.pixel_size, h.dims, Pair(0, 0),
             Pair(h.dims[CW_ROWS], h.dims[CW_COLUMNS]), NULL)

C23_Step ==
  ( /\ op'.name = "cw_enddef"
    /\ ret' = CW_NOERR
    /\ Target(op').dims[CW_ROWS] >= 1
    /\ Target(op').dims[CW_COLUMNS] >= 1 )
    => LET h == cw_files'[op'.cwid]
           f == HFile(h, fs')
           rows == h.dims[CW_ROWS]
           columns == h.dims[CW_COLUMNS]
           grid == RawGrid(h, f)
       IN /\ f.size - rows * columns * h.pixel_size
               = columns * h.pixel_size
          /\ f.size = (rows + 1) * columns * h.pixel_size
          /\ grid.rc = CW_NOERR
          /\ \A k \in 1..Len(grid.raw) : grid.raw[k] = 0

\* C23: after a successful cw_enddef of a created dataset of rows >= 1 and
\* columns >= 1, the bytes before the pixel region are columns x pixel_size,
\* the length of the file (or of the working copy) is
\* (rows + 1) x columns x pixel_size, and every pixel of the grid reads as
\* the raw value zero.
C23_EnddefLayout == [][C23_Step]_vars

----------------------------------------------------------------------------
(* Specification SpecSession: datasets created and defined, then written,  *)
(* closed and opened again                                                 *)

\* Defined with the graphics variable defined after the channel
DefinedGraphics(rows, columns, name) ==
  LET s0 == cw_create([id \in Slots |-> NULL], [p \in Paths |-> NoFile],
                      "a.cwf", CW_CLOBBER, TRUE)
      s1 == cw_def_dim(s0.cw_files, s0.fs, 0, "rows", rows)
      s2 == cw_def_dim(s1.cw_files, s1.fs, 0, "columns", columns)
      s3 == cw_def_var(s2.cw_files, s2.fs, 0, name, ChannelCall(name).xtype,
                       CW_DIM_NUM, <<CW_ROWS, CW_COLUMNS>>)
      s4 == cw_def_var(s3.cw_files, s3.fs, 0, "graphics", CW_BYTE,
                       CW_DIM_NUM, <<CW_ROWS, CW_COLUMNS>>)
  IN cw_enddef(s4.cw_files, s4.fs, 0)

\* a visible channel with graphics and an infrared channel on a grid whose
\* rows are as long as the header, an infrared channel on a small grid, the
\* byte channel and an ancillary channel
SessionDatasets ==
  {DefinedGraphics(GridRows, WideColumns, "avhrr_ch1"),
   Defined(GridRows, WideColumns, "avhrr_ch4"),
   Defined(SmallRows, SmallColumns, "avhrr_ch4"),
   Defined(GridRows, CW_HEAD_MIN, "cloud"),
   Defined(GridRows, WideColumns, "sat_zenith")}

InitSession ==
  \E d \in SessionDatasets :
    /\ cw_files = d.cw_files
    /\ fs = d.fs
    /\ op = NoCall
    /\ ret = CW_NOERR
    /\ out = <<>>
    /\ proj = NoProjection

SessionFloatPuts ==
  {PutOf(Window(CW_DATA, Pair(0, 0), Pair(1, 1), CW_FLOAT), << <<25, 1>> >>),
   PutOf(Window(CW_DATA, Pair(1, 1), Pair(1, 2), CW_FLOAT),
         << <<50, 1>>, <<10, 1>> >>)}

SessionBytePuts ==
  {PutOf(Window(CW_DATA, Pair(0, 0), Pair(1, 1), CW_BYTE), <<3>>),
   PutOf(Window(CW_GRAPHICS, Pair(0, 1), Pair(1, 1), CW_BYTE), <<5>>)}

SessionTextAtts == {TextAtt(CW_DATA, "composite_type", "average")}
SessionShortAtts == {ShortAtt("orbit_start_day", 1)}
SessionFloatAtts == {FloatAtt("start_latitude", <<25, 1>>)}

PutSessionFloat == PutVaraA({0}, SessionFloatPuts)
PutSessionUchar == PutVaraA({0}, SessionBytePuts)
PutSessionText == PutAttTextA({0}, SessionTextAtts)
PutSessionShort == PutAttShortA({0}, SessionShortAtts)
PutSessionFloatAtt == PutAttFloatA({0}, SessionFloatAtts)
CloseSession == CloseA({0})
OpenSession == OpenCount < MaxOpen /\ OpenA(Paths, {CW_NOWRITE})

NextSession ==
  \/ PutSessionFloat \/ PutSessionUchar \/ PutSessionText \/ PutSessionShort
  \/ PutSessionFloatAtt \/ CloseSession \/ OpenSession

SpecSession == InitSession /\ [][NextSession]_vars

\* what a call reports: its status and the values it stores
Reported(r) == <<r.ret, r.out, r.ub>>

\* the pixels of the whole grid of a variable of the dataset cwid
WholeGrid(table, files, cwid, varid, type) ==
  Reported(cw_get_vara(table, files, cwid, varid, Pair(0, 0),
                       Pair(table[cwid].dims[CW_ROWS],
                            table[cwid].dims[CW_COLUMNS]), type))

\* what the dataset cwid reports: its dimensions, its variable, its data
\* class, its attributes and the pixels of the whole grid
DatasetView(table, files, cwid) ==
  [rows |-> Reported(cw_inq_dim(table, files, cwid, CW_ROWS)),
   columns |-> Reported(cw_inq_dim(table, files, cwid, CW_COLUMNS)),
   var |-> Reported(cw_inq_var(table, files, cwid, CW_DATA)),
   class |-> table[cwid].data_id,
   text |-> [n \in {"composite_type", "channel_number", "satellite_id"} |->
               Reported(cw_get_att_text(table, files, cwid, CW_DATA, n))],
   short |-> Reported(cw_get_att_short(table, files, cwid, CW_DATA,
                                       "orbit_start_day")),
   float |-> Reported(cw_get_att_float(table, files, cwid, CW_DATA,
                                       "start_latitude")),
   data |-> WholeGrid(table, files, cwid, CW_DATA,
                      IF table[cwid].data_id = CW_DATA_ID_CLOUD
                      THEN CW_BYTE ELSE CW_FLOAT)]

\* the graphics of the whole grid
GraphicsView(table, files, cwid) ==
  WholeGrid(table, files, cwid, CW_GRAPHICS, CW_BYTE)

\* cw_open of the path on an empty registry
OpenedAgain(files, path) ==
  cw_open([id \in Slots |-> NULL], files, path, CW_NOWRITE, TRUE)

C24_Step ==
  ( /\ op'.name = "cw_close"
    /\ ret' = CW_NOERR
    /\ Target(op') # NULL
    /\ Target(op').wmode = CW_WRITE )
    => LET o == OpenedAgain(fs', Target(op').path)
       IN /\ o.ret = CW_NOERR
          /\ DatasetView(o.cw_files, o.fs, o.out[1])
               = DatasetView(cw_files, fs, op'.cwid)
          /\ Target(op').graphics # -1
               => GraphicsView(o.cw_files, o.fs, o.out[1])
                    = GraphicsView(cw_files, fs, op'.cwid)

\* C24: when cw_close of a dataset that was created, defined and written
\* returns CW_NOERR, cw_open of its path succeeds, and the opened dataset
\* reports what the dataset reported before the close: the same
\* dimensions, variable, data class and attribute values, and the same
\* pixels of the whole grid, and the same graphics when the graphics
\* variable was defined (the values that were put, within the quantization
\* step).
C24_ClosedDatasetPersists == [][C24_Step]_vars

----------------------------------------------------------------------------
(* Specification SpecPlane: visible and infrared datasets with graphics,   *)
(* on a grid whose rows are shorter than the header and on one whose rows  *)
(* are as long, written pixel by pixel in both planes                      *)

PlaneDatasets ==
  {DefinedGraphics(GridRows, NarrowColumns, "avhrr_ch1"),
   DefinedGraphics(GridRows, WideColumns, "avhrr_ch4")}

InitPlane ==
  \E d \in PlaneDatasets :
    /\ cw_files = d.cw_files
    /\ fs = d.fs
    /\ op = NoCall
    /\ ret = CW_NOERR
    /\ out = <<>>
    /\ proj = NoProjection

\* the windows of the puts: the first pixel, row 1 column 2, the last pixel
\* of the first row of the narrow grid
PlaneCells == {Pair(0, 0), Pair(1, 2), Pair(0, NarrowColumns - 1)}

PlaneFloatPuts ==
  {PutOf(Window(CW_DATA, c, Pair(1, 1), CW_FLOAT), <<<<25, 1>>>>) :
     c \in PlaneCells}
  \cup {PutOf(Window(CW_DATA, Pair(0, 0), Pair(2, 2), CW_FLOAT),
              [k \in 1..4 |-> <<60, 1>>])}

PlaneBytePuts ==
  {PutOf(Window(CW_GRAPHICS, c, Pair(1, 1), CW_BYTE), <<5>>) :
     c \in PlaneCells \ {Pair(0, NarrowColumns - 1)}}
  \cup {PutOf(Window(CW_GRAPHICS, Pair(0, 0), Pair(2, 2), CW_BYTE),
              <<9, 9, 9, 9>>)}

PutPlaneFloat == PutVaraA({0}, PlaneFloatPuts)
PutPlaneUchar == PutVaraA({0}, PlaneBytePuts)

NextPlane == PutPlaneFloat \/ PutPlaneUchar

SpecPlane == InitPlane /\ [][NextPlane]_vars

\* what every attribute get and every dimension inquiry of the dataset cwid
\* reports
HeaderView(table, files, cwid) ==
  [text |-> [i \in 1..CW_ATT_NUM |->
               Reported(cw_get_att_text(table, files, cwid, CW_DATA,
                                        cw_attributes[i].att_name))],
   short |-> [i \in 1..CW_ATT_NUM |->
                Reported(cw_get_att_short(table, files, cwid, CW_DATA,
                                          cw_attributes[i].att_name))],
   float |-> [i \in 1..CW_ATT_NUM |->
                Reported(cw_get_att_float(table, files, cwid, CW_DATA,
                                          cw_attributes[i].att_name))],
   dims |-> [d \in {CW_ROWS, CW_COLUMNS} |->
               Reported(cw_inq_dim(table, files, cwid, d))]]

C25_Step ==
  (op'.name = "cw_put_vara" /\ ret' = CW_NOERR /\ Target(op') # NULL)
    => HeaderView(cw_files', fs', op'.cwid)
         = HeaderView(cw_files, fs, op'.cwid)

\* C25: a pixel put that returns CW_NOERR, on the data or on the graphics
\* variable, changes no attribute and no dimension: every attribute get and
\* every dimension inquiry reports after the put what it reported before,
\* on every grid, the grids whose rows are shorter than the 136 bytes of the
\* header included.
C25_PutKeepsHeader == [][C25_Step]_vars

----------------------------------------------------------------------------
(* C26: a put on one plane of a visible or infrared dataset leaves the     *)
(* other plane and the pixels outside the window as they were              *)

\* the places in the row-major grid of the pixels of the window
InWindow(dims, start, count) ==
  {i * dims[CW_COLUMNS] + j + 1 :
     i \in start[CW_ROWS]..(start[CW_ROWS] + count[CW_ROWS] - 1),
     j \in start[CW_COLUMNS]..(start[CW_COLUMNS] + count[CW_COLUMNS] - 1)}

\* the stored pixels of the dataset cwid, row by row
StoredPixels(table, files, cwid) ==
  RawGrid(table[cwid], HFile(table[cwid], files)).raw

C26_Step ==
  (/\ op'.name = "cw_put_vara" /\ ret' = CW_NOERR /\ Target(op') # NULL
   /\ Target(op').data_id \in {CW_DATA_ID_VISIBLE, CW_DATA_ID_IR})
    => \A before \in {StoredPixels(cw_files, fs, op'.cwid)},
          after \in {StoredPixels(cw_files', fs', op'.cwid)},
          window \in {InWindow(Target(op').dims, op'.args.start,
                               op'.args.count)} :
         /\ Len(after) = Len(before)
         /\ \A k \in 1..Len(before) :
              /\ k \notin window => after[k] = before[k]
              /\ op'.args.varid = CW_DATA
                   => CW_UNC_RGRA(after[k]) = CW_UNC_RGRA(before[k])
              /\ op'.args.varid = CW_GRAPHICS
                   => CW_UNC_RVAL(after[k]) = CW_UNC_RVAL(before[k])

\* C26: a pixel put that returns CW_NOERR on a visible or infrared dataset
\* leaves every pixel outside its window unchanged; a put on the data
\* variable leaves the graphics nibble of every pixel unchanged, and a put
\* on the graphics variable leaves the channel value of every pixel
\* unchanged.
C26_PutChangesOnePlane == [][C26_Step]_vars

\* a data put has returned CW_NOERR on a window whose pixels carry graphics,
\* on a grid that has a pixel with a channel value and graphics outside the
\* window
C26_Witness ==
  /\ op.name = "cw_put_vara" /\ ret = CW_NOERR
  /\ op.args.varid = CW_DATA
  /\ cw_files[op.cwid] # NULL
  /\ LET now == StoredPixels(cw_files, fs, op.cwid)
         window == InWindow(cw_files[op.cwid].dims, op.args.start,
                            op.args.count)
     IN /\ \A k \in window :
             CW_UNC_RGRA(now[k]) # 0 /\ CW_UNC_RVAL(now[k]) # 0
        /\ \E k \in (1..Len(now)) \ window :
             CW_UNC_RGRA(now[k]) # 0 /\ CW_UNC_RVAL(now[k]) # 0

----------------------------------------------------------------------------
(* Specification SpecRound: working copies with channel values of both     *)
(* signs and graphics, compressed by cw_close                              *)

\* channel values of the first two pixels of a file, the largest and the
\* smallest of sign plus 11 bits included
RoundValues == {0, 5, -5, 2047, -2047}

InitRound ==
  \E v \in [1..2 -> RoundValues] :
    /\ cw_files = [id \in Slots |-> NULL]
    /\ fs = [p \in Paths |-> ProducedFile(v)]
    /\ op = NoCall
    /\ ret = CW_NOERR
    /\ out = <<>>
    /\ proj = NoProjection

OpenRound ==
  /\ OpenCount < MaxOpen
  /\ OpenA(Paths, {CW_WRITE})

ExpandRound ==
  GetVaraA({0}, {Window(CW_DATA, Pair(0, 1), Pair(1, 1), CW_FLOAT)})

RoundBytePuts ==
  {PutOf(Window(CW_GRAPHICS, Pair(0, 1), Pair(1, 1), CW_BYTE), <<15>>),
   PutOf(Window(CW_GRAPHICS, Pair(0, 0), Pair(2, 2), CW_BYTE),
         <<3, 3, 3, 3>>)}

PutRoundUchar == PutVaraA({0}, RoundBytePuts)

CloseRound == CloseA({0})

NextRound == OpenRound \/ ExpandRound \/ PutRoundUchar \/ CloseRound

SpecRound == InitRound /\ [][NextRound]_vars

\* the channel value and the graphics nibble of every stored pixel
Planes(raw) ==
  [k \in 1..Len(raw) |-> <<CW_UNC_RVAL(raw[k]), CW_UNC_RGRA(raw[k])>>]

\* the 1B file at path expanded by cw_uncompress on a handle of its own
Expanded(files, path) ==
  cw_uncompress(OpenedAgain(files, path).cw_files[0], files)

C27_Step ==
  ( /\ op'.name = "cw_close"
    /\ ret' = CW_NOERR
    /\ Target(op') # NULL
    /\ Target(op').ufp
    /\ Target(op').wmode = CW_WRITE )
    => /\ OpenedAgain(fs', Target(op').path).ret = CW_NOERR
       /\ \A u \in {Expanded(fs', Target(op').path)} :
            /\ u.rc = CW_NOERR
            /\ ~u.ub
            /\ \A after \in {RawGrid(Target(op'), u.h.tmp).raw},
                  before \in {RawGrid(Target(op'), Target(op').tmp).raw} :
                 Planes(after) = Planes(before)

\* C27: when cw_close compresses a working copy, whatever the channel
\* values (sign and 11-bit magnitude, negative values followed by
\* non-negative ones included) and the graphics values (0..15) of its
\* pixels, cw_uncompress of the file written gives back the channel value
\* and the graphics nibble of every pixel.
C27_CompressRoundTrip == [][C27_Step]_vars

----------------------------------------------------------------------------
(* Specification SpecKeep: every kind of call on a dataset opened with     *)
(* CW_NOWRITE, up to its cw_close and a later cw_open                      *)

InitKeep ==
  \E d \in ReadOnlyDatasets :
    /\ cw_files = d.cw_files
    /\ fs = d.fs
    /\ op = NoCall
    /\ ret = d.ret
    /\ out = <<>>
    /\ proj = NoProjection

KeepTextAtts == {TextAtt(CW_DATA, "composite_type", "average")}
KeepShortAtts == {ShortAtt("orbit_start_day", 1)}
KeepFloatAtts == {FloatAtt("start_latitude", <<25, 1>>)}

PutKeepFloat == PutVaraA({0}, ReadOnlyFloatPuts)
PutKeepUchar == PutVaraA({0}, ReadOnlyBytePuts)
GetKeep == GetVaraA({0}, Gets)
PutKeepText == PutAttTextA({0}, KeepTextAtts)
PutKeepShort == PutAttShortA({0}, KeepShortAtts)
PutKeepFloatAtt == PutAttFloatA({0}, KeepFloatAtts)
GetKeepText == GetAttTextA({0}, KeepTextAtts)
GetKeepShort == GetAttShortA({0}, KeepShortAtts)
CloseKeep == CloseA({0})
OpenKeep == OpenCount < 1 /\ OpenA({"a.cwf"}, {CW_NOWRITE})

NextKeep ==
  \/ PutKeepFloat \/ PutKeepUchar \/ GetKeep
  \/ PutKeepText \/ PutKeepShort \/ PutKeepFloatAtt
  \/ GetKeepText \/ GetKeepShort
  \/ CloseKeep \/ OpenKeep

SpecKeep == InitKeep /\ [][NextKeep]_vars

\* the call is cw_open with CW_NOWRITE or a call on a dataset opened with it
OnReadOnly(call) ==
  IF call.name = "cw_open" THEN call.args.mode = CW_NOWRITE
  ELSE Target(call) # NULL /\ Target(call).wmode = CW_NOWRITE

C28_Step == OnReadOnly(op') => fs' = fs

\* C28: neither cw_open with CW_NOWRITE nor a call on the dataset it opens
\* changes a byte of a file: attribute gets and puts, pixel gets and puts
\* (the first pixel access that expands a 1B file into a working copy
\* included) and cw_close all leave the file at the path of the dataset as
\* it was, so after any sequence of them ended by cw_close the file is what
\* it was when opened.
C28_ReadOnlyKeepsFile == [][C28_Step]_vars

\* cw_close has returned CW_NOERR on the read-only dataset of a 1B
\* compressed file
C28_Witness ==
  /\ op.name = "cw_close" /\ ret = CW_NOERR
  /\ cw_files[0] = NULL
  /\ cw_get_att(fs["a.cwf"], CW_O_COMPRESSION_TYPE).code
       = CW_COMPRESSION_TYPE_1B

----------------------------------------------------------------------------
(* Specification SpecLen: dimensions defined with lengths on both sides of *)
(* the range of the 16-bit header field                                    *)

\* lengths passed to cw_def_dim: none, small ones, and the ones around the
\* ends of the ranges of short and unsigned short
DimLengths == {0, 1, 2, 68, 32767, 32768, 40000, 65535, 65536, 65537}

LenCalls == {<<n, len>> : n \in {"rows", "columns"}, len \in DimLengths}

CreateLen == OpenCount < 1 /\ CreateA({"a.cwf"}, {CW_CLOBBER})

DefDimLen == DefDimA({0}, LenCalls)

InqDimLen ==
  \E dimid \in {CW_ROWS, CW_COLUMNS} :
    Call("cw_inq_dim", 0, [dimid |-> dimid],
         cw_inq_dim(cw_files, fs, 0, dimid))

NextLen == CreateLen \/ DefDimLen \/ InqDimLen

SpecLen == Init /\ [][NextLen]_vars

C29_Step ==
  (op'.name = "cw_def_dim" /\ ret' = CW_NOERR)
    => /\ op'.args.len > 0
       /\ cw_files'[op'.cwid].dims[out'[1]] = op'.args.len
       /\ \A q \in {cw_inq_dim(cw_files', fs', op'.cwid, out'[1])} :
            /\ q.ret = CW_NOERR
            /\ q.out[2] = op'.args.len

\* C29: when cw_def_dim(name, len) returns CW_NOERR, whatever the value of
\* len, the dimension is defined with a length greater than 0 that is len:
\* the length the handle stores and the length cw_inq_dim returns are both
\* len, never another value and never the undefined marker -1.
C29_DefDimKeepsLength == [][C29_Step]_vars

----------------------------------------------------------------------------
(* C30: the entries of the handle table that the slot search reads         *)

\* the indices id at which "while (cw_files[id] != NULL && id < CW_MAX_FILES)"
\* reads cw_files[id]: every index up to the first free slot, and up to
\* CW_MAX_FILES when no slot is free, since the entry is tested before the
\* index
SearchReads(table) ==
  LET free == {k \in Slots : table[k] = NULL}
  IN IF free = {} THEN 0..CW_MAX_FILES
     ELSE 0..(CHOOSE k \in free : \A m \in free : k <= m)

\* the call is a cw_create or a cw_open whose mode passes the mode check, so
\* that it searches a slot
SearchesSlot(call) ==
  call.name \in {"cw_create", "cw_open"} /\ call.args.mode \in {0, 1}

C30_Step == SearchesSlot(op') => SearchReads(cw_files) \subseteq Slots

\* C30: the slot search of cw_create and of cw_open reads only the entries
\* 0..CW_MAX_FILES - 1 of the handle table, in every state of the registry,
\* the one with all CW_MAX_FILES slots taken included.
C30_SearchStaysInTable == [][C30_Step]_vars

====
